---- MODULE Spec2Model ----
(***************************************************************************)
(* The render pipeline driver of Alc/alu.cpp: aluMixData, ProcessContext,  *)
(* ProcessParamUpdates, the Calc*Params update consumers,                  *)
(* SendSourceStoppedEvent and aluHandleDisconnect, as one mixer (backend)  *)
(* thread stepping through its atomic operations, together with the        *)
(* API-side threads it shares state with.                                  *)
(***************************************************************************)
EXTENDS Integers, Sequences, FiniteSets, TLC

(* ---------------------------------------------------------------- bounds *)
\* alMain.h's BUFFERSIZE is 2048; the model renders in quanta of this size.
BUFFERSIZE == 2
\* Largest frame count one aluMixData call is asked for.
MaxFrames == 5
\* Largest device sample rate (frames per second).
MaxFrequency == 3
\* Largest number of interleaved output channels.
MaxChannels == 2
\* Number of aluMixData / aluHandleDisconnect calls the backend makes.
MaxCalls == 2
\* Contexts on the device's ContextList, voices per context.
NumContexts == 2
VoiceCount == 2
\* Slots of each context's AsyncEvents ring (one slot always stays unused).
RingSize == 3

Contexts == 1..NumContexts
VoiceIdx == 1..VoiceCount

(* ----------------------------------------------------------- event kinds *)
EventType_SourceStateChange == "SourceStateChange"
EventType_Disconnected == "Disconnected"
EventType_ReleaseEffectState == "ReleaseEffectState"
NoEvent == [type |-> "none", id |-> 0]

\* A source id: voice v of context c plays source SourceOf(c, v).
SourceOf(c, v) == c * 10 + v

(* -------------------------------------------------------------- entities *)
\* Auxiliary effect slots of each context's ActiveAuxSlots array.
NumSlots == 1
SlotIdx == 1..NumSlots
\* Times the API side sets HoldUpdates in one behaviour.
MaxHolds == 1
\* Updates the API threads publish in one behaviour; every publish can take
\* one new block and create one new effect state.
MaxPublish == 2
\* Property blocks (ALcontextProps, ALlistenerProps, ALeffectslotProps,
\* ALvoiceProps) the API side can have allocated, and effect states.
Blocks == 1..MaxPublish
States == 1..(NumContexts * NumSlots + MaxPublish)

\* Everything that owns an Update slot: Context->Update, Listener.Update,
\* slot->Update, voice->Update.
E_context(c) == <<"context", c, 0>>
E_listener(c) == <<"listener", c, 0>>
E_slot(c, s) == <<"slot", c, s>>
E_voice(c, v) == <<"voice", c, v>>
Entities ==
    {E_context(c) : c \in Contexts} \cup {E_listener(c) : c \in Contexts}
    \cup {E_slot(c, s) : c \in Contexts, s \in SlotIdx}
    \cup {E_voice(c, v) : c \in Contexts, v \in VoiceIdx}
KindOf(e) == e[1]
CtxOf(e) == e[2]

(* ------------------------------------------------------------- variables *)
VARIABLES
    \* ALCdevice
    Connected, MixCount, SamplesDone, ClockBase, Frequency, NumChannels,
    FmtType, UpdateSize, WantOutput,
    \* ALCcontext, per context
    HoldUpdates, EnabledEvts, AsyncEvents, EventSem, UpdateCount,
    \* ALvoice, per context and voice: SourceID, Playing, Step
    Voices,
    \* the update channel: Update slot and mixer-side Params of every entity,
    \* the property blocks' memory, the per-context free lists, and the
    \* effect states' reference counts
    Update, Params, PropsMem, FreeProps, mRef,
    \* the mixer thread: position and locals of aluMixData and its callees
    pc, NumSamples, MixDone, SamplesToDo, RealOut, OutBuffer,
    ctx, vidx, sidx, sid, ret, props, cforce, force, oldstate, oldval,
    \* an API thread publishing an update: position and locals
    apc, aent, aprops, astale, aoldstate, SlotEffect,
    \* history
    calls, quanta, frames, pubs, holds, evtlog, posts, exhausted, dcPlaying, dcRan,
    lastPub, taken, applied, consumed, calcs,
    dropped, heldq, keptPending,
    \* ProcessContext's effect slot sort: ActiveAuxSlots, slot->Params.Target,
    \* the scratch storage, the slots pointer, the order of state->process calls
    auxslots, SlotTarget, sorted_slots, slots, processed, sortpc,
    \* a playback backend (Solaris, OSS, Wave): mKillNow, mThread.joinable(),
    \* the backend lock's holder, the mixer thread's position and locals, the
    \* position of the thread calling start() and stop()
    backend, mKillNow, joinable, block, mpc, to_write, avail, spc,
    starts, mixed,
    \* the samples of one output channel: device->ChannelDelay[0] (Length and
    \* Buffer), DitherDepth > 0, what the last aluMixData call wrote, the
    \* voices it mixed, the calls made, the frames rendered since a disconnect
    ChannelDelay, Dither, written, nmixed, renders, since,
    \* CalcSourceParams on one voice: the properties and device values read,
    \* the voice's Step afterwards, whether it has run
    calcIn, vStep, calcpc,
    \* the gains of one voice channel: the properties read, DryGain and
    \* WetGain[0], the send's Gains.Target (squared), whether they are set
    gainIn, DryGain, WetGain, TargetSq, gainpc,
    \* SampleConv<T> on one sample: the sample and the type, the result
    convIn, convOut, convpc,
    \* a thread reading the device clock: its position, the fields still to
    \* read, the MixCount, SamplesDone and ClockBase it read, the readings
    \* made, whether the pair it accepted was the device's at that moment
    rpc, rleft, rcount, rdone, rbase, reads, rok,
    \* two threads calling aluHandleDisconnect: each one's position, ctx and
    \* voice index, the calls each has made, the events the calls wrote per
    \* context, how many calls went past the exchange
    dpc, dctx, dvidx, dcalls, dlog, entered,
    \* ApplyDistanceComp on one channel over a run of quanta: the channel's
    \* Length, Gain and Buffer, the samples fed in so far, the samples that
    \* came out
    distcomp, fed, got,
    \* Uhj2Encoder over a run of encode calls: the encoder's filter states and
    \* last outputs, the B-Format samples given so far, what was added to the
    \* left and right outputs
    enc, uin, uout,
    \* aluInitRenderer on one device: its channel layout and ambisonic
    \* order, the configuration and preset read, the dry bus it sets up, what
    \* else it set
    FmtChans, mAmbiOrder, cfg, Dry, renderer

devVars == <<Connected, MixCount, SamplesDone, ClockBase, Frequency, NumChannels,
             FmtType, UpdateSize, WantOutput>>
evtVars == <<AsyncEvents, EventSem>>
ctxVars == <<HoldUpdates, EnabledEvts, UpdateCount>>
updVars == <<Update, Params, PropsMem, FreeProps, mRef>>
outVars == <<NumSamples, MixDone, SamplesToDo, RealOut, OutBuffer>>
locVars == <<ctx, vidx, sidx, sid, ret, props, cforce, force, oldstate, oldval>>
apiVars == <<apc, aent, aprops, astale, aoldstate, SlotEffect>>
histVars == <<calls, quanta, frames, pubs, holds, evtlog, posts, exhausted, dcPlaying, dcRan,
              lastPub, taken, applied, consumed, calcs>>
ghostVars == <<dropped, heldq, keptPending>>
sortVars == <<auxslots, SlotTarget, sorted_slots, slots, processed, sortpc>>
\* The state of the pure computations, which the mixer's steps leave alone.
backendVars == <<backend, mKillNow, joinable, block, mpc, to_write, avail, spc, starts, mixed>>
renderVars == <<ChannelDelay, Dither, written, nmixed, renders, since>>
calcVars == <<calcIn, vStep, calcpc>>
gainVars == <<gainIn, DryGain, WetGain, TargetSq, gainpc>>
convVars == <<convIn, convOut, convpc>>
clockVars == <<rpc, rleft, rcount, rdone, rbase, reads, rok>>
raceVars == <<dpc, dctx, dvidx, dcalls, dlog, entered>>
delayVars == <<distcomp, fed, got>>
uhjVars == <<enc, uin, uout>>
panVars == <<FmtChans, mAmbiOrder, cfg, Dry, renderer>>
auxVars == <<sortVars, backendVars, renderVars, calcVars, gainVars, convVars, clockVars, raceVars, delayVars, uhjVars, panVars>>
mixVars == <<devVars, evtVars, ctxVars, Voices, updVars, pc, outVars, locVars, apiVars,
             histVars, ghostVars>>
vars == <<mixVars, auxVars>>
\* What each of the pure computations and the backend loop leaves alone.
sortOthers == <<mixVars, backendVars, renderVars, calcVars, gainVars, convVars, clockVars, raceVars, delayVars, uhjVars, panVars>>
panOthers == <<mixVars, sortVars, backendVars, renderVars, calcVars, gainVars, convVars, clockVars, raceVars, delayVars, uhjVars>>
uhjOthers == <<mixVars, sortVars, backendVars, renderVars, calcVars, gainVars, convVars, clockVars, raceVars, delayVars, panVars>>
delayOthers == <<mixVars, sortVars, backendVars, renderVars, calcVars, gainVars, convVars, clockVars, raceVars, uhjVars, panVars>>
raceOthers == <<MixCount, SamplesDone, ClockBase, Frequency, NumChannels, FmtType,
                UpdateSize, WantOutput, ctxVars, updVars, pc, outVars, locVars, apiVars,
                histVars, ghostVars, sortVars, backendVars, renderVars, calcVars,
                gainVars, convVars, clockVars, delayVars, uhjVars, panVars>>
clockOthers == <<mixVars, sortVars, backendVars, renderVars, calcVars, gainVars, convVars, raceVars, delayVars, uhjVars, panVars>>
calcOthers == <<mixVars, sortVars, backendVars, renderVars, gainVars, convVars, clockVars, raceVars, delayVars, uhjVars, panVars>>
gainOthers == <<mixVars, sortVars, backendVars, renderVars, calcVars, convVars, clockVars, raceVars, delayVars, uhjVars, panVars>>
convOthers == <<mixVars, sortVars, backendVars, renderVars, calcVars, gainVars, clockVars, raceVars, delayVars, uhjVars, panVars>>
backendOthers == <<MixCount, SamplesDone, ClockBase, Frequency, NumChannels, FmtType,
                   UpdateSize, WantOutput, evtVars, ctxVars, Voices, updVars, pc, outVars,
                   locVars, apiVars, histVars, ghostVars, sortVars, renderVars, calcVars,
                   gainVars, convVars, clockVars, raceVars, delayVars, uhjVars, panVars>>
renderOthers == <<Frequency, NumChannels, FmtType, UpdateSize, WantOutput, evtVars, ctxVars,
                  updVars, pc, outVars, locVars, apiVars, histVars, ghostVars, sortVars,
                  backendVars, calcVars, gainVars, convVars, clockVars, raceVars, delayVars, uhjVars, panVars>>

(* ------------------------------------------------------------- helpers *)
Min(a, b) == IF a < b THEN a ELSE b
Clamp(v, lo, hi) == IF v < lo THEN lo ELSE IF v > hi THEN hi ELSE v

\* device->ContextList and ctx->next: the contexts in list order, 0 is null.
ContextListHead == IF NumContexts > 0 THEN 1 ELSE 0
NextContext(c) == IF c < NumContexts THEN c + 1 ELSE 0

(* RingBuffer (ringbuffer.h): power-of-two ring with one slot kept free,    *)
(* w the producer index, r the consumer index.                              *)
WriteSpace(ring) == (ring.r - ring.w - 1 + RingSize) % RingSize
ReadSpace(ring) == (ring.w - ring.r + RingSize) % RingSize
\* getWriteVector().first.len: the free slots up to the end of the storage.
WriteVectorFirstLen(ring) == Min(WriteSpace(ring), RingSize - ring.w)
\* Placement-new of an event at the write pointer, then writeAdvance(1).
RingWrite(ring, evt) ==
    [ring EXCEPT !.buf[ring.w] = evt, !.w = (ring.w + 1) % RingSize]
\* The consumer's read of one event, then readAdvance(1).
RingRead(ring) ==
    [ring EXCEPT !.buf[ring.r] = NoEvent, !.r = (ring.r + 1) % RingSize]
EmptyRing == [buf |-> [i \in 0..(RingSize - 1) |-> NoEvent], w |-> 0, r |-> 0]
\* The queued events, oldest first.
Queued(ring) == [k \in 1..ReadSpace(ring) |-> ring.buf[(ring.r + k - 1) % RingSize]]

(* Samples are held in units of 1/128 of full scale, so that every          *)
(* conversion below is exact on them. The 32-bit results, whose low 7 bits  *)
(* are always zero (<<7, and a bias of 2^31), are held without those bits.  *)
DevFmtTypes == {"DevFmtByte", "DevFmtUByte", "DevFmtShort", "DevFmtUShort",
                "DevFmtInt", "DevFmtUInt", "DevFmtFloat"}
SampleConvInt(val) == Clamp(val * 131072, -16777216, 16777215)
SampleConvShort(val) == Clamp(val * 256, -32768, 32767)
SampleConvByte(val) == Clamp(val, -128, 127)
SampleConv(T, val) ==
    CASE T = "DevFmtFloat" -> val
      [] T = "DevFmtInt" -> SampleConvInt(val)
      [] T = "DevFmtShort" -> SampleConvShort(val)
      [] T = "DevFmtByte" -> SampleConvByte(val)
      [] T = "DevFmtUInt" -> (SampleConvInt(val) + 16777216) % 33554432
      [] T = "DevFmtUShort" -> (SampleConvShort(val) + 32768) % 65536
      [] T = "DevFmtUByte" -> (SampleConvByte(val) + 128) % 256

\* What the post-processing stages leave in RealOut.Buffer[c][i] for the
\* frame at offset f of the call: a value that identifies (f, c).
Rendered(f, c) == (f * MaxChannels + c) * 16 - 64

\* The output buffer handed to aluMixData: one list of stored values per
\* sample position, with one frame of room past the largest request.
OutLen == (MaxFrames + 1) * MaxChannels
FreshOutBuffer == [p \in 0..(OutLen - 1) |-> <<>>]
\* Faulty variant: every sample advances out by one place instead of numchans.
WriteIndexPlanar(Offset, c, i, numchans) == Offset * numchans + c + i
\* Write<T>: out = outbase + c where outbase = OutBuffer + Offset*numchans;
\* every sample advances out by numchans.
WriteIndex(Offset, c, i, numchans) == Offset * numchans + c + i * numchans
Write(buf, T, In, Offset, todo, numchans) ==
    [p \in DOMAIN buf |->
        LET hits == {ci \in (0..(numchans - 1)) \X (0..(todo - 1)) :
                         Min(WriteIndex(Offset, ci[1], ci[2], numchans), OutLen - 1) = p}
            RECURSIVE App(_, _)
            App(seq, S) == IF S = {} THEN seq
                           ELSE LET x == CHOOSE y \in S : \A z \in S :
                                             (y[1] < z[1]) \/ (y[1] = z[1] /\ y[2] <= z[2])
                                IN App(Append(seq, SampleConv(T, In[x[1]][x[2]])), S \ {x})
        IN App(buf[p], hits)]

(* ------------------------------------------------- the backend's calls *)
\* A backend mixer loop calls aluMixData(device, buffer, UpdateSize).
BackendMix ==
    /\ pc = "idle" /\ calls < MaxCalls
    /\ calls' = calls + 1
    /\ NumSamples' = UpdateSize
    /\ MixDone' = 0
    /\ OutBuffer' = FreshOutBuffer
    /\ pc' = "loop"
    /\ UNCHANGED <<auxVars, ghostVars, devVars, evtVars, ctxVars, Voices, updVars, SamplesToDo, RealOut,
                   locVars, apiVars, quanta, frames, pubs, holds, evtlog, posts, exhausted,
                   dcPlaying, dcRan, lastPub, taken, applied, consumed, calcs>>

\* A backend whose poll or write failed calls aluHandleDisconnect(device, msg).
BackendDisconnect ==
    /\ pc = "idle" /\ calls < MaxCalls
    /\ calls' = calls + 1
    /\ pc' = "dc_xchg"
    /\ UNCHANGED <<auxVars, ghostVars, devVars, evtVars, ctxVars, Voices, updVars, outVars, locVars, apiVars,
                   quanta, frames, pubs, holds, evtlog, posts, exhausted, dcPlaying, dcRan,
                   lastPub, taken, applied, consumed, calcs>>

(* ------------------------------------------------------------ aluMixData *)
\* for(SamplesDone = 0; SamplesDone < NumSamples;) SamplesToDo = mini(...)
LoopHead ==
    /\ pc = "loop"
    /\ IF MixDone < NumSamples
         THEN /\ SamplesToDo' = Min(NumSamples - MixDone, BUFFERSIZE)
              /\ quanta' = quanta + 1
              /\ consumed' = [e \in Entities |-> 0]
              /\ pc' = "clear"
         ELSE /\ pc' = "idle"
              /\ UNCHANGED <<SamplesToDo, quanta, consumed>>
    /\ UNCHANGED <<auxVars, ghostVars, devVars, evtVars, ctxVars, Voices, updVars, NumSamples, MixDone,
                   RealOut, OutBuffer, locVars, apiVars, calls, frames, pubs, holds, evtlog,
                   posts, exhausted, dcPlaying, dcRan, lastPub, taken, applied, calcs>>

\* Faulty variant: the count is left as it is.
NotIncremented(count) == count
\* IncrementRef(&ref): the count after it.
IncrementRef(count) == count + 1

\* Faulty variant: the count is raised before the buffers are cleared.
ClearMixBuffersCounted ==
    /\ pc = "clear"
    /\ MixCount' = MixCount + 1
    /\ pc' = "incr1"
    /\ UNCHANGED <<auxVars, ghostVars, Connected, SamplesDone, ClockBase, Frequency, NumChannels, FmtType,
                   UpdateSize, WantOutput, evtVars, ctxVars, Voices, updVars, outVars,
                   locVars, apiVars, histVars>>
\* Clear main mixing buffers.
ClearMixBuffers ==
    /\ pc = "clear"
    /\ pc' = "incr1"
    /\ UNCHANGED <<auxVars, ghostVars, devVars, evtVars, ctxVars, Voices, updVars, outVars, locVars, apiVars,
                   histVars>>

\* IncrementRef(&device->MixCount), then ctx = device->ContextList.load().
IncrementMixCount1 ==
    /\ pc = "incr1"
    /\ MixCount' = IncrementRef(MixCount)
    /\ ctx' = ContextListHead
    /\ pc' = IF ContextListHead = 0 THEN "clock" ELSE "upd_begin"
    /\ UNCHANGED <<auxVars, ghostVars, Connected, SamplesDone, ClockBase, Frequency, NumChannels, FmtType,
                   UpdateSize, WantOutput, evtVars, ctxVars, Voices, updVars, outVars,
                   vidx, sidx, sid, ret, props, cforce, force, oldstate, oldval, apiVars,
                   histVars>>

\* Faulty variant: the remainder is taken before the whole seconds are.
AdvanceClockRemainderFirst(done, base, todo, freq) ==
    LET rem == (done + todo) % freq
    IN  [SamplesDone |-> rem, ClockBase |-> base + (rem \div freq)]
\* SamplesDone += SamplesToDo; ClockBase += seconds{SamplesDone / Frequency};
\* SamplesDone %= Frequency.
AdvanceClockOf(done, base, todo, freq) ==
    LET sum == done + todo
    IN  [SamplesDone |-> sum % freq, ClockBase |-> base + (sum \div freq)]
AdvanceClock ==
    /\ pc = "clock"
    /\ LET after == AdvanceClockOf(SamplesDone, ClockBase, SamplesToDo, Frequency)
       IN  /\ SamplesDone' = after.SamplesDone
           /\ ClockBase' = after.ClockBase
    /\ frames' = frames + SamplesToDo
    /\ pc' = "incr2"
    /\ UNCHANGED <<auxVars, ghostVars, Connected, MixCount, Frequency, NumChannels, FmtType, UpdateSize,
                   WantOutput, evtVars, ctxVars, Voices, updVars, outVars, locVars,
                   apiVars, calls, quanta, pubs, holds, evtlog, posts, exhausted, dcPlaying,
                   dcRan, lastPub, taken, applied, consumed, calcs>>

\* IncrementRef(&device->MixCount) at the end.
IncrementMixCount2 ==
    /\ pc = "incr2"
    /\ MixCount' = IncrementRef(MixCount)
    /\ pc' = "postproc"
    /\ UNCHANGED <<auxVars, ghostVars, Connected, SamplesDone, ClockBase, Frequency, NumChannels, FmtType,
                   UpdateSize, WantOutput, evtVars, ctxVars, Voices, updVars, outVars,
                   locVars, apiVars, histVars>>

\* PostProcess, stabilizer, limiter, distance compensation and dither leave
\* the quantum's samples in the first SamplesToDo places of RealOut.Buffer.
PostProcess ==
    /\ pc = "postproc"
    /\ RealOut' = [c \in DOMAIN RealOut |->
                     [i \in DOMAIN RealOut[c] |->
                        IF i < SamplesToDo THEN Rendered(MixDone + i, c)
                                           ELSE RealOut[c][i]]]
    /\ pc' = "write"
    /\ UNCHANGED <<auxVars, ghostVars, devVars, evtVars, ctxVars, Voices, updVars, NumSamples, MixDone,
                   SamplesToDo, OutBuffer, locVars, apiVars, histVars>>

\* if(OutBuffer) Write<T>(Buffer, OutBuffer, SamplesDone, SamplesToDo, Channels);
\* SamplesDone += SamplesToDo.
WriteOutput ==
    /\ pc = "write"
    /\ OutBuffer' = IF WantOutput
                      THEN Write(OutBuffer, FmtType, RealOut, MixDone, SamplesToDo,
                                 NumChannels)
                      ELSE OutBuffer
    /\ MixDone' = MixDone + SamplesToDo
    /\ pc' = "loop"
    /\ UNCHANGED <<auxVars, ghostVars, devVars, evtVars, ctxVars, Voices, updVars, NumSamples, SamplesToDo,
                   RealOut, locVars, apiVars, histVars>>

(* --------------------------------------------------- ProcessParamUpdates *)
\* The history of a consuming exchange: which publish was the latest one.
Took(e, blk) ==
    /\ taken' = IF blk = 0 THEN taken ELSE [taken EXCEPT ![e] = lastPub[e]]
    /\ consumed' = IF blk = 0 THEN consumed ELSE [consumed EXCEPT ![e] = @ + 1]
\* Faulty variant: nothing is calculated without a block.
SkipsCalcUnforced(blk, frc) == blk = 0
\* if(!props && !force) return; in CalcEffectSlotParams and CalcSourceParams.
SkipsCalc(blk, frc) == blk = 0 /\ ~frc
\* AtomicReplaceHead(head, newhead): push on the free list.
AtomicReplaceHead(free, c, kind, blk) == [free EXCEPT ![c][kind] = <<blk>> \o @]

\* Faulty variant: the HoldUpdates flag is not looked at.
NeverHolds(c) == FALSE
\* IncrementRef(&ctx->UpdateCount); if(!ctx->HoldUpdates.load()) ...
HoldsUpdates(c) == HoldUpdates[c]
ParamUpdatesBegin ==
    /\ pc = "upd_begin"
    /\ UpdateCount' = [UpdateCount EXCEPT ![ctx] = @ + 1]
    /\ heldq' = HoldUpdates[ctx]
    /\ keptPending' = IF HoldUpdates[ctx]
                         THEN keptPending \cup
                              {e \in Entities : CtxOf(e) = ctx /\ Update[e] # 0}
                         ELSE keptPending
    /\ pc' = IF HoldsUpdates(ctx) THEN "upd_end" ELSE "upd_ctx"
    /\ UNCHANGED <<auxVars, dropped, devVars, evtVars, HoldUpdates, EnabledEvts, Voices, updVars, outVars,
                   locVars, apiVars, histVars>>

\* Faulty variant: the slot is loaded and left as it is.
ConsumeLoad(e) == [blk |-> Update[e], upd |-> Update]
\* CalcContextParams: props = Context->Update.exchange(nullptr).
ConsumeExchange(e) == [blk |-> Update[e], upd |-> [Update EXCEPT ![e] = 0]]
ContextExchange ==
    /\ pc = "upd_ctx"
    /\ LET x == ConsumeExchange(E_context(ctx))
       IN  /\ props' = x.blk
           /\ Update' = x.upd
           /\ Took(E_context(ctx), x.blk)
           /\ cforce' = FALSE
           /\ pc' = IF x.blk = 0 THEN "upd_lst" ELSE "upd_ctx_apply"
    /\ UNCHANGED <<auxVars, ghostVars, devVars, evtVars, ctxVars, Voices, Params, PropsMem, FreeProps, mRef,
                   outVars, ctx, vidx, sidx, sid, ret, force, oldstate, oldval, apiVars,
                   calls, quanta, frames, pubs, holds, evtlog, posts, exhausted, dcPlaying, dcRan,
                   lastPub, applied, calcs>>

\* CalcContextParams: copy the fields, AtomicReplaceHead(FreeContextProps, props).
ContextApply ==
    /\ pc = "upd_ctx_apply"
    /\ Params' = [Params EXCEPT ![E_context(ctx)].val = PropsMem[props].val]
    /\ applied' = [applied EXCEPT ![E_context(ctx)] = Append(@, PropsMem[props].val)]
    /\ calcs' = [calcs EXCEPT ![E_context(ctx)] = @ + 1]
    /\ FreeProps' = AtomicReplaceHead(FreeProps, ctx, "context", props)
    /\ props' = 0
    /\ cforce' = TRUE
    /\ pc' = "upd_lst"
    /\ UNCHANGED <<auxVars, ghostVars, devVars, evtVars, ctxVars, Voices, Update, PropsMem, mRef, outVars,
                   ctx, vidx, sidx, sid, ret, force, oldstate, oldval, apiVars,
                   calls, quanta, frames, pubs, holds, evtlog, posts, exhausted, dcPlaying, dcRan,
                   lastPub, taken, consumed>>

\* CalcListenerParams: props = Listener.Update.exchange(nullptr);
\* force = CalcListenerParams(ctx) || cforce.
ListenerExchange ==
    /\ pc = "upd_lst"
    /\ LET x == ConsumeExchange(E_listener(ctx))
       IN  /\ props' = x.blk
           /\ Update' = x.upd
           /\ Took(E_listener(ctx), x.blk)
           /\ force' = cforce
           /\ sidx' = 1
           /\ pc' = IF x.blk = 0 THEN "upd_slot" ELSE "upd_lst_apply"
    /\ UNCHANGED <<auxVars, ghostVars, devVars, evtVars, ctxVars, Voices, Params, PropsMem, FreeProps, mRef,
                   outVars, ctx, vidx, sid, ret, cforce, oldstate, oldval, apiVars,
                   calls, quanta, frames, pubs, holds, evtlog, posts, exhausted, dcPlaying, dcRan,
                   lastPub, applied, calcs>>

ListenerApply ==
    /\ pc = "upd_lst_apply"
    /\ Params' = [Params EXCEPT ![E_listener(ctx)].val = PropsMem[props].val]
    /\ applied' = [applied EXCEPT ![E_listener(ctx)] = Append(@, PropsMem[props].val)]
    /\ calcs' = [calcs EXCEPT ![E_listener(ctx)] = @ + 1]
    /\ FreeProps' = AtomicReplaceHead(FreeProps, ctx, "listener", props)
    /\ props' = 0
    /\ force' = TRUE
    /\ pc' = "upd_slot"
    /\ UNCHANGED <<auxVars, ghostVars, devVars, evtVars, ctxVars, Voices, Update, PropsMem, mRef, outVars,
                   ctx, vidx, sidx, sid, ret, cforce, oldstate, oldval, apiVars,
                   calls, quanta, frames, pubs, holds, evtlog, posts, exhausted, dcPlaying, dcRan,
                   lastPub, taken, consumed>>

\* CalcEffectSlotParams(slot, ctx, cforce): props = slot->Update.exchange(nullptr);
\* if(!props && !force) return false; without props the state is updated again.
SlotExchange ==
    /\ pc = "upd_slot"
    /\ IF sidx > NumSlots
         THEN /\ vidx' = 1
              /\ pc' = "upd_voice"
              /\ UNCHANGED <<Update, props, sidx, force, taken, consumed, calcs>>
         ELSE LET e == E_slot(ctx, sidx)
                  x == ConsumeExchange(e)
              IN  /\ props' = x.blk
                  /\ Update' = x.upd
                  /\ Took(e, x.blk)
                  /\ vidx' = vidx
                  /\ IF x.blk # 0
                       THEN /\ pc' = "slot_apply"
                            /\ UNCHANGED <<sidx, force, calcs>>
                       ELSE /\ pc' = "upd_slot"
                            /\ sidx' = sidx + 1
                            /\ force' = (cforce \/ force)
                            /\ calcs' = IF SkipsCalc(x.blk, cforce) THEN calcs
                                         ELSE [calcs EXCEPT ![e] = @ + 1]
    /\ UNCHANGED <<auxVars, ghostVars, devVars, evtVars, ctxVars, Voices, Params, PropsMem, FreeProps, mRef,
                   outVars, ctx, sid, ret, cforce, oldstate, oldval, apiVars,
                   calls, quanta, frames, pubs, holds, evtlog, posts, exhausted, dcPlaying, dcRan,
                   lastPub, applied>>

\* Copy the fields; state = props->State; props->State = nullptr;
\* oldstate = slot->Params.mEffectState; slot->Params.mEffectState = state;
\* oldval = oldstate->mRef.load().
SlotApply ==
    /\ pc = "slot_apply"
    /\ LET e == E_slot(ctx, sidx)
       IN  /\ Params' = [Params EXCEPT ![e] = [val |-> PropsMem[props].val,
                                                mEffectState |-> PropsMem[props].State]]
           /\ applied' = [applied EXCEPT ![e] = Append(@, PropsMem[props].val)]
           /\ PropsMem' = [PropsMem EXCEPT ![props].State = 0]
           /\ oldstate' = Params[e].mEffectState
           /\ oldval' = mRef[Params[e].mEffectState]
    /\ pc' = "slot_cas"
    /\ UNCHANGED <<auxVars, ghostVars, devVars, evtVars, ctxVars, Voices, Update, FreeProps, mRef, outVars,
                   ctx, vidx, sidx, sid, ret, props, cforce, force, apiVars,
                   calls, quanta, frames, pubs, holds, evtlog, posts, exhausted, dcPlaying, dcRan,
                   lastPub, taken, consumed, calcs>>

\* Faulty variant: a fetch_sub in place of the compare-exchange.
DecrementNoCompare(cur, old) ==
    IF old > 1 THEN [mRef |-> cur - 1, oldval |-> old, exit |-> TRUE]
               ELSE [mRef |-> cur, oldval |-> old, exit |-> TRUE]
\* One turn of while(oldval > 1 && !mRef.compare_exchange_weak(oldval, oldval-1)):
\* the count after it, the local oldval after it, and whether the loop is left.
DecrementOldRef(cur, old) ==
    IF old > 1
      THEN IF cur = old THEN [mRef |-> old - 1, oldval |-> old, exit |-> TRUE]
                        ELSE [mRef |-> cur, oldval |-> cur, exit |-> FALSE]
      ELSE [mRef |-> cur, oldval |-> old, exit |-> TRUE]
SlotDecrementRef ==
    /\ pc = "slot_cas"
    /\ LET t == DecrementOldRef(mRef[oldstate], oldval)
       IN  /\ mRef' = [mRef EXCEPT ![oldstate] = t.mRef]
           /\ oldval' = t.oldval
           /\ pc' = IF ~t.exit THEN "slot_cas"
                    ELSE IF t.oldval < 2 THEN "slot_release" ELSE "slot_recycle"
    /\ UNCHANGED <<auxVars, ghostVars, devVars, evtVars, ctxVars, Voices, Update, Params, PropsMem, FreeProps,
                   outVars, ctx, vidx, sidx, sid, ret, props, cforce, force, oldstate,
                   apiVars, histVars>>

\* if(oldval < 2): a ReleaseEffectState event carrying oldstate if the ring has
\* room (then writeAdvance(1)), else props->State = oldstate.
SlotReleaseState ==
    /\ pc = "slot_release"
    /\ IF WriteVectorFirstLen(AsyncEvents[ctx]) > 0
         THEN LET evt == [type |-> EventType_ReleaseEffectState, id |-> oldstate]
              IN  /\ AsyncEvents' = [AsyncEvents EXCEPT ![ctx] = RingWrite(@, evt)]
                  /\ evtlog' = [evtlog EXCEPT ![ctx] = Append(@, evt)]
                  /\ pc' = "slot_post"
                  /\ UNCHANGED <<PropsMem, dropped>>
         ELSE /\ PropsMem' = [PropsMem EXCEPT ![props].State = oldstate]
              /\ pc' = "slot_recycle"
              /\ dropped' = dropped \cup {<<ctx, EventType_ReleaseEffectState, oldstate>>}
              /\ UNCHANGED <<AsyncEvents, evtlog>>
    /\ UNCHANGED <<auxVars, heldq, keptPending, devVars, EventSem, ctxVars, Voices, Update, Params, FreeProps, mRef,
                   outVars, locVars, apiVars, calls, quanta, frames, pubs, holds, posts,
                   exhausted, dcPlaying, dcRan, lastPub, taken, applied, consumed, calcs>>

\* context->EventSem.post() after the ReleaseEffectState event.
SlotReleasePost ==
    /\ pc = "slot_post"
    /\ EventSem' = [EventSem EXCEPT ![ctx] = @ + 1]
    /\ posts' = [posts EXCEPT ![ctx] = @ + 1]
    /\ pc' = "slot_recycle"
    /\ UNCHANGED <<auxVars, ghostVars, devVars, AsyncEvents, ctxVars, Voices, updVars, outVars, locVars,
                   apiVars, calls, quanta, frames, pubs, holds, evtlog, exhausted, dcPlaying,
                   dcRan, lastPub, taken, applied, consumed, calcs>>

\* AtomicReplaceHead(context->FreeEffectslotProps, props); state->update(...);
\* return true.
SlotRecycle ==
    /\ pc = "slot_recycle"
    /\ FreeProps' = AtomicReplaceHead(FreeProps, ctx, "slot", props)
    /\ calcs' = [calcs EXCEPT ![E_slot(ctx, sidx)] = @ + 1]
    /\ props' = 0
    /\ force' = TRUE
    /\ sidx' = sidx + 1
    /\ pc' = "upd_slot"
    /\ UNCHANGED <<auxVars, ghostVars, devVars, evtVars, ctxVars, Voices, Update, Params, PropsMem, mRef,
                   outVars, ctx, vidx, sid, ret, cforce, oldstate, oldval, apiVars,
                   calls, quanta, frames, pubs, holds, evtlog, posts, exhausted, dcPlaying, dcRan,
                   lastPub, taken, applied, consumed>>

\* For each voice: sid = voice->SourceID.load(); if(sid) CalcSourceParams(voice,
\* ctx, force): props = voice->Update.exchange(nullptr); if(!props && !force) return.
VoiceExchange ==
    /\ pc = "upd_voice"
    /\ IF vidx > VoiceCount
         THEN /\ pc' = "upd_end"
              /\ UNCHANGED <<Update, props, vidx, taken, consumed, calcs>>
         ELSE IF Voices[ctx][vidx].SourceID = 0
         THEN /\ pc' = "upd_voice"
              /\ vidx' = vidx + 1
              /\ UNCHANGED <<Update, props, taken, consumed, calcs>>
         ELSE LET e == E_voice(ctx, vidx)
                  x == ConsumeExchange(e)
              IN  /\ props' = x.blk
                  /\ Update' = x.upd
                  /\ Took(e, x.blk)
                  /\ IF x.blk # 0
                       THEN /\ pc' = "voice_apply"
                            /\ UNCHANGED <<vidx, calcs>>
                       ELSE /\ pc' = "upd_voice"
                            /\ vidx' = vidx + 1
                            /\ calcs' = IF SkipsCalc(x.blk, force) THEN calcs
                                         ELSE [calcs EXCEPT ![e] = @ + 1]
    /\ UNCHANGED <<auxVars, ghostVars, devVars, evtVars, ctxVars, Voices, Params, PropsMem, FreeProps, mRef,
                   outVars, ctx, sidx, sid, ret, cforce, force, oldstate, oldval, apiVars,
                   calls, quanta, frames, pubs, holds, evtlog, posts, exhausted, dcPlaying, dcRan,
                   lastPub, applied>>

\* voice->Props = *props; AtomicReplaceHead(context->FreeVoiceProps, props);
\* then the parameters are calculated from voice->Props.
VoiceApply ==
    /\ pc = "voice_apply"
    /\ Params' = [Params EXCEPT ![E_voice(ctx, vidx)].val = PropsMem[props].val]
    /\ applied' = [applied EXCEPT ![E_voice(ctx, vidx)] = Append(@, PropsMem[props].val)]
    /\ calcs' = [calcs EXCEPT ![E_voice(ctx, vidx)] = @ + 1]
    /\ FreeProps' = AtomicReplaceHead(FreeProps, ctx, "voice", props)
    /\ props' = 0
    /\ vidx' = vidx + 1
    /\ pc' = "upd_voice"
    /\ UNCHANGED <<auxVars, ghostVars, devVars, evtVars, ctxVars, Voices, Update, PropsMem, mRef, outVars,
                   ctx, sidx, sid, ret, cforce, force, oldstate, oldval, apiVars,
                   calls, quanta, frames, pubs, holds, evtlog, posts, exhausted, dcPlaying, dcRan,
                   lastPub, taken, consumed>>

\* IncrementRef(&ctx->UpdateCount) at the end of ProcessParamUpdates; the wet
\* buffers are cleared and the voice loop of ProcessContext starts.
ParamUpdatesEnd ==
    /\ pc = "upd_end"
    /\ UpdateCount' = [UpdateCount EXCEPT ![ctx] = @ + 1]
    /\ keptPending' = IF heldq THEN keptPending
                         ELSE {e \in keptPending : CtxOf(e) # ctx}
    /\ vidx' = 1
    /\ ret' = "voice"
    /\ pc' = "voice"
    /\ UNCHANGED <<auxVars, dropped, heldq, devVars, evtVars, HoldUpdates, EnabledEvts, Voices, updVars, outVars,
                   ctx, sidx, sid, props, cforce, force, oldstate, oldval, apiVars,
                   histVars>>

(* -------------------------------------------------------- ProcessContext *)
\* Faulty variant: a voice is mixed whenever its step allows it.
IsMixedByStep(voice) == voice.Step >= 1
\* if(!voice->Playing.load()) return; sid = voice->SourceID.load();
\* if(!sid || voice->Step < 1) return;
IsMixed(voice) == voice.Playing /\ voice.SourceID # 0 /\ voice.Step >= 1
\* Process voices that have a playing source: MixSource returns false when the
\* source is exhausted.
MixVoice ==
    /\ pc = "voice"
    /\ IF vidx > VoiceCount
         THEN /\ pc' = "effects"
              /\ UNCHANGED <<vidx, sid, exhausted>>
         ELSE IF ~IsMixed(Voices[ctx][vidx])
         THEN /\ pc' = "voice"
              /\ vidx' = vidx + 1
              /\ UNCHANGED <<sid, exhausted>>
         ELSE \E more \in BOOLEAN :
                IF more
                  THEN /\ pc' = "voice"
                       /\ vidx' = vidx + 1
                       /\ UNCHANGED <<sid, exhausted>>
                  ELSE /\ pc' = "stop_sid"
                       /\ sid' = Voices[ctx][vidx].SourceID
                       /\ exhausted' = exhausted \cup {<<ctx, Voices[ctx][vidx].SourceID>>}
                       /\ vidx' = vidx
    /\ UNCHANGED <<auxVars, ghostVars, devVars, evtVars, ctxVars, Voices, updVars, outVars, ctx, sidx, ret,
                   props, cforce, force, oldstate, oldval, apiVars, calls, quanta, frames,
                   pubs, holds, evtlog, posts, dcPlaying, dcRan, lastPub, taken, applied,
                   consumed, calcs>>

\* voice->SourceID.store(0u, std::memory_order_relaxed).
StopSourceID ==
    /\ pc = "stop_sid"
    /\ Voices' = [Voices EXCEPT ![ctx][vidx].SourceID = 0]
    /\ pc' = "stop_play"
    /\ UNCHANGED <<auxVars, ghostVars, devVars, evtVars, ctxVars, updVars, outVars, locVars, apiVars,
                   histVars>>

\* Faulty variant: the Playing flag is left set.
StopPlayingSkipped ==
    /\ pc = "stop_play"
    /\ pc' = "send"
    /\ UNCHANGED <<auxVars, ghostVars, devVars, evtVars, ctxVars, Voices, updVars, outVars, locVars,
                   apiVars, histVars>>
\* voice->Playing.store(false, std::memory_order_release).
StopPlaying ==
    /\ pc = "stop_play"
    /\ Voices' = [Voices EXCEPT ![ctx][vidx].Playing = FALSE]
    /\ pc' = "send"
    /\ UNCHANGED <<auxVars, ghostVars, devVars, evtVars, ctxVars, updVars, outVars, locVars, apiVars,
                   histVars>>

\* Faulty variant: the event carries the SourceID read after it was zeroed.
SourceStoppedEventNoId(id) == [type |-> EventType_SourceStateChange, id |-> 0]
\* SendSourceStoppedEvent(context, id) up to ring->writeAdvance(1): nothing is
\* sent when the event type is not enabled or the ring has no room.
SourceStoppedEvent(id) == [type |-> EventType_SourceStateChange, id |-> id]
\* Faulty variant: the ring's write vector is not looked at.
CanSendUnchecked(c, type) == type \in EnabledEvts[c]
CanSend(c, type) == type \in EnabledEvts[c] /\ WriteVectorFirstLen(AsyncEvents[c]) >= 1
SendSourceStoppedEvent ==
    /\ pc = "send"
    /\ IF CanSend(ctx, EventType_SourceStateChange)
         THEN /\ AsyncEvents' = [AsyncEvents EXCEPT ![ctx] =
                                     RingWrite(@, SourceStoppedEvent(sid))]
              /\ evtlog' = [evtlog EXCEPT ![ctx] = Append(@, SourceStoppedEvent(sid))]
              /\ pc' = "send_post"
              /\ vidx' = vidx
              /\ UNCHANGED dropped
         ELSE /\ pc' = ret
              /\ vidx' = vidx + 1
              /\ dropped' = dropped \cup {<<ctx, EventType_SourceStateChange, sid>>}
              /\ UNCHANGED <<AsyncEvents, evtlog>>
    /\ UNCHANGED <<auxVars, heldq, keptPending, devVars, EventSem, ctxVars, Voices, updVars, outVars, ctx, sidx, sid,
                   ret, props, cforce, force, oldstate, oldval, apiVars, calls, quanta,
                   frames, pubs, holds, posts, exhausted, dcPlaying, dcRan, lastPub, taken,
                   applied, consumed, calcs>>

\* context->EventSem.post(), the last statement of SendSourceStoppedEvent.
SendPost ==
    /\ pc = "send_post"
    /\ EventSem' = [EventSem EXCEPT ![ctx] = @ + 1]
    /\ posts' = [posts EXCEPT ![ctx] = @ + 1]
    /\ pc' = ret
    /\ vidx' = vidx + 1
    /\ UNCHANGED <<auxVars, ghostVars, devVars, AsyncEvents, ctxVars, Voices, updVars, outVars, ctx, sidx,
                   sid, ret, props, cforce, force, oldstate, oldval, apiVars, calls,
                   quanta, frames, pubs, holds, evtlog, exhausted, dcPlaying, dcRan, lastPub,
                   taken, applied, consumed, calcs>>

\* Process effects (sort the slots, state->process on each), then
\* ctx = ctx->next of aluMixData's loop.
ProcessEffects ==
    /\ pc = "effects"
    /\ heldq' = FALSE
    /\ ctx' = NextContext(ctx)
    /\ pc' = IF NextContext(ctx) = 0 THEN "clock" ELSE "upd_begin"
    /\ UNCHANGED <<auxVars, dropped, keptPending, devVars, evtVars, ctxVars, Voices, updVars, outVars, vidx, sidx, sid,
                   ret, props, cforce, force, oldstate, oldval, apiVars, histVars>>

(* --------------------------------------------------- aluHandleDisconnect *)
\* The voices that are playing, with the source each one plays.
PlayingSources ==
    {<<cv[1], cv[2], Voices[cv[1]][cv[2]].SourceID>> :
        cv \in {x \in Contexts \X VoiceIdx : Voices[x[1]][x[2]].Playing}}

\* if(!device->Connected.exchange(false)) return; ctx = device->ContextList.load().
DisconnectExchange ==
    /\ pc = "dc_xchg"
    /\ Connected' = FALSE
    /\ IF Connected /\ ContextListHead # 0
         THEN /\ pc' = "dc_ctx"
              /\ ctx' = ContextListHead
              /\ dcPlaying' = PlayingSources
              /\ dcRan' = dcRan
         ELSE /\ pc' = "idle"
              /\ dcRan' = (dcRan \/ Connected)
              /\ UNCHANGED <<ctx, dcPlaying>>
    /\ UNCHANGED <<auxVars, ghostVars, MixCount, SamplesDone, ClockBase, Frequency, NumChannels, FmtType,
                   UpdateSize, WantOutput, evtVars, ctxVars, Voices, updVars, outVars,
                   vidx, sidx, sid, ret, props, cforce, force, oldstate, oldval, apiVars,
                   calls, quanta, frames, pubs, holds, evtlog, posts, exhausted, lastPub, taken,
                   applied, consumed, calcs>>

\* The Disconnected event of one context, up to ring->writeAdvance(1).
DisconnectedEvent == [type |-> EventType_Disconnected, id |-> 0]
DisconnectEvent ==
    /\ pc = "dc_ctx"
    /\ IF CanSend(ctx, EventType_Disconnected)
         THEN /\ AsyncEvents' = [AsyncEvents EXCEPT ![ctx] = RingWrite(@, DisconnectedEvent)]
              /\ evtlog' = [evtlog EXCEPT ![ctx] = Append(@, DisconnectedEvent)]
              /\ pc' = "dc_post"
              /\ UNCHANGED <<vidx, ret, dropped>>
         ELSE /\ pc' = "dc_voice"
              /\ vidx' = 1
              /\ ret' = "dc_voice"
              /\ dropped' = dropped \cup {<<ctx, EventType_Disconnected, 0>>}
              /\ UNCHANGED <<AsyncEvents, evtlog>>
    /\ UNCHANGED <<auxVars, heldq, keptPending, devVars, EventSem, ctxVars, Voices, updVars, outVars, ctx, sidx, sid,
                   props, cforce, force, oldstate, oldval, apiVars, calls, quanta, frames,
                   pubs, holds, posts, exhausted, dcPlaying, dcRan, lastPub, taken, applied,
                   consumed, calcs>>

\* ctx->EventSem.post() after the Disconnected event.
DisconnectPost ==
    /\ pc = "dc_post"
    /\ EventSem' = [EventSem EXCEPT ![ctx] = @ + 1]
    /\ posts' = [posts EXCEPT ![ctx] = @ + 1]
    /\ vidx' = 1
    /\ ret' = "dc_voice"
    /\ pc' = "dc_voice"
    /\ UNCHANGED <<auxVars, ghostVars, devVars, AsyncEvents, ctxVars, Voices, updVars, outVars, ctx, sidx,
                   sid, props, cforce, force, oldstate, oldval, apiVars, calls, quanta,
                   frames, pubs, holds, evtlog, exhausted, dcPlaying, dcRan, lastPub, taken,
                   applied, consumed, calcs>>

\* Faulty variant: voices with Step < 1 are passed over as in ProcessContext.
IsStoppedAudible(voice) == voice.Playing /\ voice.SourceID # 0 /\ voice.Step >= 1
\* if(!voice->Playing.load()) return; sid = voice->SourceID.load(); if(!sid) return;
IsStopped(voice) == voice.Playing /\ voice.SourceID # 0
\* The voice loop of aluHandleDisconnect, then ctx = ctx->next.
DisconnectVoice ==
    /\ pc = "dc_voice"
    /\ IF vidx > VoiceCount
         THEN /\ ctx' = NextContext(ctx)
              /\ pc' = IF NextContext(ctx) = 0 THEN "idle" ELSE "dc_ctx"
              /\ dcRan' = (dcRan \/ NextContext(ctx) = 0)
              /\ UNCHANGED <<vidx, sid>>
         ELSE IF IsStopped(Voices[ctx][vidx])
         THEN /\ pc' = "stop_sid"
              /\ sid' = Voices[ctx][vidx].SourceID
              /\ UNCHANGED <<ctx, vidx, dcRan>>
         ELSE /\ pc' = "dc_voice"
              /\ vidx' = vidx + 1
              /\ UNCHANGED <<ctx, sid, dcRan>>
    /\ UNCHANGED <<auxVars, ghostVars, devVars, evtVars, ctxVars, Voices, updVars, outVars, sidx, ret, props,
                   cforce, force, oldstate, oldval, apiVars, calls, quanta, frames, pubs, holds,
                   evtlog, posts, exhausted, dcPlaying, lastPub, taken, applied, consumed,
                   calcs>>

(* ------------------------------------------------------ the API threads *)
\* The event thread polling the ring: one event read, then readAdvance(1); a
\* ReleaseEffectState event releases the reference it carries. (EventSem
\* counts the posts; the thread's waits on it are not modelled.)
EventThreadRead(c) ==
    /\ ReadSpace(AsyncEvents[c]) > 0
    /\ LET evt == AsyncEvents[c].buf[AsyncEvents[c].r]
       IN  mRef' = IF evt.type = EventType_ReleaseEffectState
                     THEN [mRef EXCEPT ![evt.id] = @ - 1]
                     ELSE mRef
    /\ AsyncEvents' = [AsyncEvents EXCEPT ![c] = RingRead(@)]
    /\ UNCHANGED <<auxVars, ghostVars, devVars, EventSem, ctxVars, Voices, Update, Params, PropsMem, FreeProps,
                   pc, outVars, locVars, apiVars, histVars>>

\* The context the API threads of the model work on.
APIContext == ContextListHead
InUse(b) ==
    \/ \E e \in Entities : Update[e] = b
    \/ \E c \in Contexts : \E k \in DOMAIN FreeProps[c] :
          \E i \in DOMAIN FreeProps[c][k] : FreeProps[c][k][i] = b
    \/ b \in {props, aprops, astale}
NewState == NumContexts * NumSlots + pubs + 1

\* An API call that changes a property: a block is popped off the free list
\* (or allocated); a call that changes a slot's effect first replaces
\* slot->Effect.State by a new state and releases the old one.
APIBegin(e, newEffect) ==
    /\ apc = "idle"
    /\ pubs < MaxPublish
    /\ CtxOf(e) = APIContext
    /\ KindOf(e) = "voice" => Voices[e[2]][e[3]].SourceID # 0
    /\ newEffect => KindOf(e) = "slot"
    /\ LET free == FreeProps[CtxOf(e)][KindOf(e)]
       IN  IF free # <<>>
             THEN /\ aprops' = Head(free)
                  /\ FreeProps' = [FreeProps EXCEPT ![CtxOf(e)][KindOf(e)] = Tail(@)]
             ELSE /\ aprops' = CHOOSE b \in Blocks : ~InUse(b)
                  /\ UNCHANGED FreeProps
    /\ IF newEffect
         THEN /\ mRef' = [mRef EXCEPT ![NewState] = 1, ![SlotEffect[e]] = @ - 1]
              /\ SlotEffect' = [SlotEffect EXCEPT ![e] = NewState]
         ELSE UNCHANGED <<mRef, SlotEffect>>
    /\ aent' = e
    /\ pubs' = pubs + 1
    /\ apc' = "fill"
    /\ UNCHANGED <<auxVars, ghostVars, devVars, evtVars, ctxVars, Voices, Update, Params, PropsMem, pc,
                   outVars, locVars, astale, aoldstate, calls, quanta, frames, holds,
                   evtlog, posts, exhausted, dcPlaying, dcRan, lastPub, taken, applied,
                   consumed, calcs>>

\* The block is filled with the current property values; a slot's block takes
\* a reference to slot->Effect.State, and a state left in the block is kept
\* aside for release.
APIFill ==
    /\ apc = "fill"
    /\ aoldstate' = PropsMem[aprops].State
    /\ IF KindOf(aent) = "slot"
         THEN /\ PropsMem' = [PropsMem EXCEPT ![aprops] =
                                 [val |-> pubs, State |-> SlotEffect[aent]]]
              /\ mRef' = [mRef EXCEPT ![SlotEffect[aent]] = @ + 1]
         ELSE /\ PropsMem' = [PropsMem EXCEPT ![aprops] = [val |-> pubs, State |-> 0]]
              /\ UNCHANGED mRef
    /\ apc' = "publish"
    /\ UNCHANGED <<auxVars, ghostVars, devVars, evtVars, ctxVars, Voices, Update, Params, FreeProps, pc,
                   outVars, locVars, aent, aprops, astale, SlotEffect, histVars>>

\* props = Update.exchange(props, std::memory_order_acq_rel).
APIPublish ==
    /\ apc = "publish"
    /\ astale' = Update[aent]
    /\ Update' = [Update EXCEPT ![aent] = aprops]
    /\ lastPub' = [lastPub EXCEPT ![aent] = PropsMem[aprops].val]
    /\ aprops' = 0
    /\ apc' = "recycle"
    /\ UNCHANGED <<auxVars, ghostVars, devVars, evtVars, ctxVars, Voices, Params, PropsMem, FreeProps, mRef,
                   pc, outVars, locVars, aent, aoldstate, SlotEffect, calls, quanta, frames,
                   pubs, holds, evtlog, posts, exhausted, dcPlaying, dcRan, taken, applied,
                   consumed, calcs>>

\* An unconsumed block that was swapped out goes back on the free list, and
\* the references held by it and by the state kept aside are released.
APIRecycle ==
    /\ apc = "recycle"
    /\ LET s1 == IF astale # 0 THEN PropsMem[astale].State ELSE 0
           dec(m, st) == IF st = 0 THEN m ELSE [m EXCEPT ![st] = @ - 1]
       IN  /\ mRef' = dec(dec(mRef, s1), aoldstate)
           /\ PropsMem' = IF astale # 0 THEN [PropsMem EXCEPT ![astale].State = 0]
                                        ELSE PropsMem
    /\ FreeProps' = IF astale # 0
                      THEN AtomicReplaceHead(FreeProps, CtxOf(aent), KindOf(aent), astale)
                      ELSE FreeProps
    /\ astale' = 0
    /\ aoldstate' = 0
    /\ apc' = "idle"
    /\ UNCHANGED <<auxVars, ghostVars, devVars, evtVars, ctxVars, Voices, Update, Params, pc, outVars,
                   locVars, aent, aprops, SlotEffect, histVars>>

\* Updates are deferred (HoldUpdates set) and later processed (cleared).
APISetHold ==
    /\ ~HoldUpdates[APIContext]
    /\ holds < MaxHolds
    /\ holds' = holds + 1
    /\ HoldUpdates' = [HoldUpdates EXCEPT ![APIContext] = TRUE]
    /\ UNCHANGED <<auxVars, ghostVars, devVars, evtVars, EnabledEvts, UpdateCount, Voices, updVars, pc,
                   outVars, locVars, apiVars, calls, quanta, frames, pubs, evtlog, posts,
                   exhausted, dcPlaying, dcRan, lastPub, taken, applied, consumed, calcs>>

APIClearHold ==
    /\ HoldUpdates[APIContext]
    /\ HoldUpdates' = [HoldUpdates EXCEPT ![APIContext] = FALSE]
    /\ UNCHANGED <<auxVars, ghostVars, devVars, evtVars, EnabledEvts, UpdateCount, Voices, updVars, pc,
                   outVars, locVars, apiVars, histVars>>

(* ------------------------------------- ProcessContext: the effect slots *)
\* Largest number of slots in a context's ActiveAuxSlots array.
MaxSortSlots == 3
SortSlotIds == 1..MaxSortSlots

\* Faulty variant: only the slot's own Target is looked at.
in_chain_direct(slot1, slot2) == SlotTarget[slot1] = slot2
\* in_chain: while((slot1=slot1->Params.Target) != nullptr)
\*               if(slot1 == slot2) return true;  return false;
RECURSIVE in_chain(_, _)
in_chain(slot1, slot2) ==
    LET t == SlotTarget[slot1]
    IN  IF t = 0 THEN FALSE
        ELSE IF t = slot2 THEN TRUE
        ELSE in_chain(t, slot2)

\* Faulty variant: every slot is put at the end of the list.
CheckerAppend(list, slot, k) == Len(list) + 1
\* The do-while over sorted_slots: the first place whose slot the new slot
\* outputs to, directly or indirectly, or the end of the list.
RECURSIVE Checker(_, _, _)
Checker(list, slot, k) ==
    IF in_chain(slot, list[k]) THEN k
    ELSE IF k + 1 > Len(list) THEN k + 1
    ELSE Checker(list, slot, k + 1)
\* std::move_backward(checker, end, end+1); *--checker = *slots.
InsertAt(list, k, slot) ==
    SubSeq(list, 1, k - 1) \o <<slot>> \o SubSeq(list, k, Len(list))

\* if(auxslots->size() < 1) return; *sorted_slots_end = *slots.
SortFirst ==
    /\ sortpc = "first"
    /\ IF Len(auxslots) < 1
         THEN /\ sortpc' = "done"
              /\ UNCHANGED <<sorted_slots, slots>>
         ELSE /\ sorted_slots' = <<auxslots[1]>>
              /\ slots' = 2
              /\ sortpc' = "sort"
    /\ UNCHANGED <<sortOthers, auxslots, SlotTarget, processed>>

\* One turn of while(++slots != slots_end).
SortInsert ==
    /\ sortpc = "sort"
    /\ IF slots > Len(auxslots)
         THEN /\ sortpc' = "process"
              /\ slots' = 1
              /\ UNCHANGED sorted_slots
         ELSE /\ sorted_slots' = InsertAt(sorted_slots,
                                          Checker(sorted_slots, auxslots[slots], 1),
                                          auxslots[slots])
              /\ slots' = slots + 1
              /\ sortpc' = "sort"
    /\ UNCHANGED <<sortOthers, auxslots, SlotTarget, processed>>

\* std::for_each(sorted_slots, sorted_slots_end, ...): state->process().
ProcessSlot ==
    /\ sortpc = "process"
    /\ IF slots > Len(sorted_slots)
         THEN /\ sortpc' = "done"
              /\ UNCHANGED <<processed, slots>>
         ELSE /\ processed' = Append(processed, sorted_slots[slots])
              /\ slots' = slots + 1
              /\ sortpc' = "process"
    /\ UNCHANGED <<sortOthers, auxslots, SlotTarget, sorted_slots>>

\* The Target chains a context can hold: no slot outputs to itself, directly
\* or indirectly.
RECURSIVE Reaches(_, _, _, _)
Reaches(T, a, b, n) ==
    IF n = 0 \/ T[a] = 0 THEN FALSE
    ELSE IF T[a] = b THEN TRUE
    ELSE Reaches(T, T[a], b, n - 1)
Acyclic(T) == \A a \in SortSlotIds : ~Reaches(T, a, a, MaxSortSlots)
\* The arrays of n distinct slots.
SlotArrays(n) ==
    {a \in [1..n -> SortSlotIds] : \A i, j \in 1..n : i # j => a[i] # a[j]}
SortIdle ==
    /\ auxslots = <<>> /\ SlotTarget = [x \in SortSlotIds |-> 0]
    /\ sorted_slots = <<>> /\ slots = 1 /\ processed = <<>> /\ sortpc = "done"
SortStart ==
    /\ auxslots \in UNION {SlotArrays(n) : n \in 0..MaxSortSlots}
    /\ SlotTarget \in {T \in [SortSlotIds -> 0..MaxSortSlots] : Acyclic(T)}
    /\ sorted_slots = <<>> /\ slots = 1 /\ processed = <<>> /\ sortpc = "first"

(* ------------------------------------------- the playback backends' loops *)
\* Bytes of one update that a device write can leave unwritten (Solaris,
\* OSS), and updates the Wave writer can find due at one clock reading.
MaxWrite == 2
MaxAvail == 2
\* Times start() is called in one behaviour.
MaxStarts == 2
Backends == {"solaris", "oss", "wave"}
Polling(b) == b \in {"solaris", "oss"}

\* Faulty variant: the loop goes on until it is told to stop.
LoopCondKillOnly(kill, connected) == ~kill
\* while(!mKillNow.load(acquire) && device->Connected.load(acquire))
LoopCond(kill, connected) == ~kill /\ connected
\* Faulty variant: a partial write is retried until it is complete.
WriteCondAll(left, kill) == left > 0
\* while(to_write > 0 && !mKillNow.load())
WriteCond(left, kill) == left > 0 /\ ~kill

\* start(): mKillNow.store(AL_FALSE); mThread = std::thread(mixerProc); a
\* thread that cannot be created throws after the store.
Start(ok) ==
    /\ spc = "out" /\ ~joinable /\ starts < MaxStarts
    /\ starts' = starts + 1
    /\ mKillNow' = FALSE
    /\ joinable' = ok
    /\ mpc' = IF ok THEN "entry" ELSE mpc
    /\ mixed' = FALSE
    /\ UNCHANGED <<backendOthers, Connected, backend, block, to_write, avail, spc>>

\* stop(): if(mKillNow.exchange(AL_TRUE) || !mThread.joinable()) return;
StopCall ==
    /\ spc = "out"
    /\ mKillNow' = TRUE
    /\ spc' = IF mKillNow \/ ~joinable THEN "out" ELSE "join"
    /\ UNCHANGED <<backendOthers, Connected, backend, joinable, block, mpc, to_write, avail,
                   starts, mixed>>

\* mThread.join() returns once mixerProc has returned.
Join ==
    /\ spc = "join" /\ mpc = "returned"
    /\ joinable' = FALSE
    /\ mpc' = "none"
    /\ spc' = "out"
    /\ UNCHANGED <<backendOthers, Connected, backend, mKillNow, block, to_write, avail,
                   starts, mixed>>

\* mixerProc up to its loop: Solaris and OSS take the backend lock.
ThreadEntry ==
    /\ mpc = "entry"
    /\ IF Polling(backend)
         THEN block = "none" /\ block' = "mixer"
         ELSE UNCHANGED block
    /\ mpc' = "head"
    /\ UNCHANGED <<backendOthers, Connected, backend, mKillNow, joinable, to_write, avail, spc,
                   starts, mixed>>

\* The loop condition; Solaris and OSS unlock before poll(), and unlock and
\* return when the loop is left.
LoopTest ==
    /\ mpc = "head"
    /\ IF LoopCond(mKillNow, Connected)
         THEN mpc' = IF Polling(backend) THEN "poll" ELSE "clock"
         ELSE mpc' = "returned"
    /\ block' = IF Polling(backend) THEN "none" ELSE block
    /\ UNCHANGED <<backendOthers, Connected, backend, mKillNow, joinable, to_write, avail, spc,
                   starts, mixed>>

\* poll(&pollitem, 1, 1000), then lock(): interrupted, failed, timed out, or
\* the device is ready.
Poll(pret) ==
    /\ mpc = "poll" /\ block = "none"
    /\ block' = "mixer"
    /\ mpc' = CASE pret = "eintr" -> "head"
                [] pret = "error" -> "poll_failed"
                [] pret = "timeout" -> "head"
                [] pret = "ready" -> "mix"
    /\ UNCHANGED <<backendOthers, Connected, backend, mKillNow, joinable, to_write, avail, spc,
                   starts, mixed>>

\* aluHandleDisconnect(device, ...) on a device at rest, then break: after a
\* failed poll out of the loop, after a failed write out of the write loop.
Disconnect ==
    /\ mpc \in {"poll_failed", "write_failed"}
    /\ Connected' = FALSE
    /\ mpc' = IF mpc = "poll_failed" THEN "exit" ELSE "head"
    /\ UNCHANGED <<backendOthers, backend, mKillNow, joinable, block, to_write, avail, spc,
                   starts, mixed>>

\* The break out of the Solaris/OSS loop: unlock(); return 0.
ThreadExit ==
    /\ mpc = "exit"
    /\ block' = "none"
    /\ mpc' = "returned"
    /\ UNCHANGED <<backendOthers, Connected, backend, mKillNow, joinable, to_write, avail, spc,
                   starts, mixed>>

\* Wave: avail is read off the clock; less than an update sleeps and tries
\* again, otherwise the due updates are written one by one.
WaveClock(due) ==
    /\ mpc = "clock"
    /\ avail' = due
    /\ mpc' = IF due = 0 THEN "head" ELSE "due"
    /\ UNCHANGED <<backendOthers, Connected, backend, mKillNow, joinable, block, to_write, spc,
                   starts, mixed>>

\* Wave: while(avail-done >= UpdateSize) { lock(); aluMixData(...
WaveDue ==
    /\ mpc = "due"
    /\ IF avail > 0
         THEN block = "none" /\ block' = "mixer" /\ mpc' = "mix"
         ELSE mpc' = "head" /\ UNCHANGED block
    /\ UNCHANGED <<backendOthers, Connected, backend, mKillNow, joinable, to_write, avail, spc,
                   starts, mixed>>

\* Faulty variant: the lock is given up for the time of the mix.
MixLockReleased(holder) == "none"
\* aluMixData has no lock() and no unlock(): the holder stays.
MixLock(holder) == holder
\* The call of aluMixData on a device at rest; its steps are the mixer's above.
MixCall ==
    /\ mpc = "mix"
    /\ mpc' = "mixing"
    /\ block' = MixLock(block)
    /\ mixed' = TRUE
    /\ UNCHANGED <<backendOthers, Connected, backend, mKillNow, joinable, to_write, avail, spc,
                   starts>>

\* aluMixData returns: Solaris and OSS have the whole update to write, Wave
\* unlocks and writes it to the file.
MixReturn ==
    /\ mpc = "mixing"
    /\ IF Polling(backend)
         THEN /\ to_write' = MaxWrite
              /\ mpc' = "write"
              /\ UNCHANGED <<block, avail>>
         ELSE /\ block' = "none"
              /\ avail' = avail - 1
              /\ mpc' = "fwrite"
              /\ UNCHANGED to_write
    /\ UNCHANGED <<backendOthers, Connected, backend, mKillNow, joinable, spc, starts, mixed>>

\* Solaris, OSS: the write loop's condition.
WriteTest ==
    /\ mpc = "write"
    /\ mpc' = IF WriteCond(to_write, mKillNow) THEN "writing" ELSE "head"
    /\ UNCHANGED <<backendOthers, Connected, backend, mKillNow, joinable, block, to_write, avail,
                   spc, starts, mixed>>

\* Solaris, OSS: write() returns -1 with EAGAIN/EWOULDBLOCK/EINTR (wrote = 0
\* here), -1 with another error (wrote = -1 here), or the bytes written.
WriteStep(wrote) ==
    /\ mpc = "writing"
    /\ IF wrote < 0
         THEN /\ mpc' = "write_failed"
              /\ UNCHANGED to_write
         ELSE /\ wrote <= to_write
              /\ to_write' = to_write - wrote
              /\ mpc' = "write"
    /\ UNCHANGED <<backendOthers, Connected, backend, mKillNow, joinable, block, avail, spc,
                   starts, mixed>>

\* Wave: fwrite(...); if(ferror(mFile)) { aluHandleDisconnect(...); break; }
WaveWrite(failed) ==
    /\ mpc = "fwrite"
    /\ mpc' = IF failed THEN "write_failed" ELSE "due"
    /\ UNCHANGED <<backendOthers, Connected, backend, mKillNow, joinable, block, to_write, avail,
                   spc, starts, mixed>>

\* Before start(): mKillNow{AL_TRUE}, no thread.
BackendIdle ==
    /\ backend = "wave" /\ mKillNow = TRUE /\ joinable = FALSE /\ block = "none"
    /\ mpc = "none" /\ to_write = 0 /\ avail = 0 /\ spc = "out" /\ starts = 0
    /\ mixed = FALSE
BackendStart ==
    /\ backend \in Backends /\ mKillNow = TRUE /\ joinable = FALSE /\ block = "none"
    /\ mpc = "none" /\ to_write = 0 /\ avail = 0 /\ spc = "out" /\ starts = 0
    /\ mixed = FALSE

ThreadNext ==
    \/ ThreadEntry \/ LoopTest \/ ThreadExit \/ Disconnect
    \/ \E pret \in {"eintr", "error", "timeout", "ready"} : Poll(pret)
    \/ \E due \in 0..MaxAvail : WaveClock(due)
    \/ WaveDue \/ MixCall \/ MixReturn \/ WriteTest
    \/ \E wrote \in -1..MaxWrite : WriteStep(wrote)
    \/ \E failed \in BOOLEAN : WaveWrite(failed)

(* ------------------------------------- aluMixData: one channel's samples *)
\* aluMixData calls in one behaviour, and the longest channel delay.
MaxRenders == 4
MaxDelay == 3
\* The sample a playing source contributes at frame t (units of 1/128).
SourceSample(t) == 16 * (1 + (t % 3))
MixedVoices == {cv \in Contexts \X VoiceIdx : IsMixed(Voices[cv[1]][cv[2]])}
\* The Dry mix of a quantum starting at frame t0: cleared, then each mixed
\* voice adds its samples.
DryMix(t0, todo) ==
    [i \in 1..todo |-> Cardinality(MixedVoices) * SourceSample(t0 + i - 1)]

\* Faulty variant: a quantum shorter than the delay leaves the line unshifted.
DistanceCompUnshifted(inout, dc, todo) ==
    LET base == dc.Length
    IN  IF base <= 0 THEN [out |-> inout, dc |-> dc]
        ELSE IF todo >= base
        THEN [out |-> dc.Buffer \o SubSeq(inout, 1, todo - base),
              dc |-> [dc EXCEPT !.Buffer = SubSeq(inout, todo - base + 1, todo)]]
        ELSE [out |-> SubSeq(dc.Buffer, 1, todo),
              dc |-> [dc EXCEPT !.Buffer = SubSeq(dc.Buffer, 1, base - todo) \o inout]]
\* ApplyDistanceComp on one channel with Gain 1: the samples and the delay
\* line afterwards.
DistanceComp(inout, dc, todo) ==
    LET base == dc.Length
    IN  IF base <= 0 THEN [out |-> inout, dc |-> dc]
        ELSE IF todo >= base
        THEN [out |-> dc.Buffer \o SubSeq(inout, 1, todo - base),
              dc |-> [dc EXCEPT !.Buffer = SubSeq(inout, todo - base + 1, todo)]]
        ELSE [out |-> SubSeq(dc.Buffer, 1, todo),
              dc |-> [dc EXCEPT !.Buffer = SubSeq(dc.Buffer, todo + 1, base) \o inout]]
\* ApplyDither at the output depth: sample*quant_scale is a whole number and
\* the noise rng0/UINT_MAX - rng1/UINT_MAX rounds the sum to it or to a
\* neighbour.
DitherNoise == -1..1
ApplyDither(samples, noise) == [i \in DOMAIN samples |-> samples[i] + noise[i]]
\* The output sample of a silent input.
ZeroLevel(T) == SampleConv(T, 0)

\* One aluMixData call of BUFFERSIZE frames with an output buffer.
RenderQuantum(noise) ==
    /\ renders < MaxRenders
    /\ renders' = renders + 1
    /\ LET dry == DryMix(renders * BUFFERSIZE, BUFFERSIZE)
           comp == DistanceComp(dry, ChannelDelay, BUFFERSIZE)
           out == IF Dither THEN ApplyDither(comp.out, noise) ELSE comp.out
           after == AdvanceClockOf(SamplesDone, ClockBase, BUFFERSIZE, Frequency)
       IN  /\ ChannelDelay' = comp.dc
           /\ written' = [i \in 1..BUFFERSIZE |-> SampleConv(FmtType, out[i])]
           /\ SamplesDone' = after.SamplesDone
           /\ ClockBase' = after.ClockBase
    /\ MixCount' = IncrementRef(IncrementRef(MixCount))
    /\ nmixed' = Cardinality(MixedVoices)
    /\ since' = IF Connected THEN 0 ELSE since + BUFFERSIZE
    /\ UNCHANGED <<renderOthers, Connected, Voices, Dither>>

\* aluHandleDisconnect with no event enabled: Connected is cleared and every
\* voice playing a source loses its SourceID and its Playing flag.
RenderDisconnect ==
    /\ Connected
    /\ Connected' = FALSE
    /\ Voices' = [c \in Contexts |-> [v \in VoiceIdx |->
                     IF IsStopped(Voices[c][v])
                       THEN [Voices[c][v] EXCEPT !.SourceID = 0, !.Playing = FALSE]
                       ELSE Voices[c][v]]]
    /\ UNCHANGED <<renderOthers, MixCount, SamplesDone, ClockBase, renderVars>>

RenderIdle ==
    /\ ChannelDelay = [Length |-> 0, Buffer |-> <<>>] /\ Dither = FALSE
    /\ written = <<>> /\ nmixed = 0 /\ renders = 0 /\ since = 0
\* After a device reset: an empty delay line of any length, dither on or off.
RenderStart ==
    /\ ChannelDelay \in {[Length |-> n, Buffer |-> [k \in 1..n |-> 0]] : n \in 0..MaxDelay}
    /\ Dither \in BOOLEAN
    /\ written = <<>> /\ nmixed = 0 /\ renders = 0 /\ since = 0

(* ------------------------------------------- CalcSourceParams: the Step *)
\* FRACTIONBITS and MAX_PITCH of alu.h, scaled down.
FRACTIONBITS == 2
MAX_PITCH == 3
FRACTIONONE == 2 ^ FRACTIONBITS
\* Largest velocity along the source-to-listener axis, and speed of sound.
MaxVelocity == 2
MaxSpeedOfSound == 3
\* Values are exact fractions [n, d] with d > 0; d = 0 is +infinity.
Frac(n, d) == [n |-> n, d |-> d]
FracMul(a, bn, bd) == IF a.d = 0 THEN a ELSE Frac(a.n * bn, a.d * bd)
FracGreater(a, k) == a.d = 0 \/ a.n > k * a.d
\* fastf2i: the conversion of the FPU's rounding mode, which truncates
\* toward zero or rounds to nearest, ties to even.
fastf2i(a, mode) ==
    LET m == IF a.n < 0 THEN -a.n ELSE a.n
        q == m \div a.d
        r == m % a.d
        mag == IF mode = "truncate" THEN q
               ELSE IF 2 * r < a.d THEN q
               ELSE IF 2 * r > a.d THEN q + 1
               ELSE IF q % 2 = 0 THEN q ELSE q + 1
    IN  IF a.n < 0 THEN -mag ELSE mag
maxi(a, b) == IF a > b THEN a ELSE b

\* Faulty variant: the source's speed is looked at before the listener's.
DopplerSourceFirst(Pitch, vss, vls, SpeedOfSound) ==
    IF ~(vss < SpeedOfSound) THEN Frac(1, 0)
    ELSE IF ~(vls < SpeedOfSound) THEN Frac(0, 1)
    ELSE FracMul(Pitch, SpeedOfSound - vls, SpeedOfSound - vss)
\* The velocity-based doppler effect on the pitch.
Doppler(Pitch, vss, vls, SpeedOfSound) ==
    IF ~(vls < SpeedOfSound) THEN Frac(0, 1)
    ELSE IF ~(vss < SpeedOfSound) THEN Frac(1, 0)
    ELSE FracMul(Pitch, SpeedOfSound - vls, SpeedOfSound - vss)
\* Faulty variant: the converted pitch is stored as it is.
StepOfUnclamped(Pitch, mode) ==
    IF FracGreater(Pitch, MAX_PITCH) THEN MAX_PITCH * FRACTIONONE
    ELSE fastf2i(FracMul(Pitch, FRACTIONONE, 1), mode)
\* if(Pitch > MAX_PITCH) Step = MAX_PITCH<<FRACTIONBITS;
\* else Step = maxi(fastf2i(Pitch * FRACTIONONE), 1);
StepOf(Pitch, mode) ==
    IF FracGreater(Pitch, MAX_PITCH) THEN MAX_PITCH * FRACTIONONE
    ELSE maxi(fastf2i(FracMul(Pitch, FRACTIONONE, 1), mode), 1)
\* The pitch of CalcAttnSourceParams and of CalcNonAttnSourceParams before
\* it is converted.
PitchOf(in) ==
    LET DopplerFactor == in.SourceDoppler * in.ListenerDoppler
        shifted == IF in.attenuated /\ DopplerFactor > 0
                     THEN Doppler(in.Pitch, in.vs * DopplerFactor, in.vl * DopplerFactor,
                                  in.SpeedOfSound)
                     ELSE in.Pitch
    IN  FracMul(shifted, in.BufferFrequency, in.DeviceFrequency)

\* CalcSourceParams has computed the voice's parameters.
CalcStep ==
    /\ calcpc = "ready"
    /\ vStep' = StepOf(PitchOf(calcIn), calcIn.mode)
    /\ calcpc' = "done"
    /\ UNCHANGED <<calcOthers, calcIn>>

Pitches == {Frac(0, 1), Frac(1, 2), Frac(1, 1), Frac(3, 1), Frac(7, 2)}
CalcInputs ==
    [attenuated : BOOLEAN, Pitch : Pitches, SourceDoppler : 0..1, ListenerDoppler : 1..2,
     vs : (-1)..MaxVelocity, vl : (-1)..MaxVelocity, SpeedOfSound : 2..MaxSpeedOfSound,
     BufferFrequency : 1..MaxFrequency, DeviceFrequency : {1, MaxFrequency},
     mode : {"truncate", "nearest"}]
CalcIdle ==
    /\ calcIn = [attenuated |-> FALSE, Pitch |-> Frac(1, 1), SourceDoppler |-> 0,
                 ListenerDoppler |-> 1, vs |-> 0, vl |-> 0, SpeedOfSound |-> 2,
                 BufferFrequency |-> 1, DeviceFrequency |-> 1, mode |-> "truncate"]
    /\ vStep = 0 /\ calcpc = "done"
CalcStart ==
    /\ calcIn \in CalcInputs
    /\ vStep = 0 /\ calcpc = "ready"

(* ------------------------------------------ CalcSourceParams: the gains *)
\* GAIN_MIX_MAX of alu.h, scaled down.
GAIN_MIX_MAX == 2
\* Gains are held in halves, products of three gains in eighths, direction
\* components in fifths; a target gain g is held as g*g in units of 1/1600.
Directions ==
    {d \in ((-5)..5) \X ((-5)..5) \X ((-5)..5) : d[1] * d[1] + d[2] * d[2] + d[3] * d[3] = 25}
clampf(val, lo, hi) == IF val < lo THEN lo ELSE IF val > hi THEN hi ELSE val
minf(a, b) == IF a < b THEN a ELSE b
\* Faulty variant: the product is passed on as it is.
MixGainUncapped(gain, MinGain, MaxGain, FilterGain, ListenerGain) ==
    clampf(gain, MinGain, MaxGain) * FilterGain * ListenerGain
\* gain = clampf(gain, MinGain, MaxGain);
\* gain = minf(gain * filter gain * Listener.Params.Gain, GAIN_MIX_MAX), in eighths.
MixGain(gain, MinGain, MaxGain, FilterGain, ListenerGain) ==
    minf(clampf(gain, MinGain, MaxGain) * FilterGain * ListenerGain, GAIN_MIX_MAX * 8)
\* CalcAmbiCoeffs, first order, squared and in units of 1/25: coeffs[0] = 1,
\* coeffs[1..3] = sqrt(3) * (y, z, x); a full spread (tau) scales coeffs[0]
\* by sqrt(2) and the first order by 0.
AmbiCoeffsSq(dir, fullSpread) ==
    [acn \in 0..3 |->
        IF acn = 0 THEN (IF fullSpread THEN 50 ELSE 25)
        ELSE IF fullSpread THEN 0
        ELSE 3 * dir[acn] * dir[acn]]
\* ComputePanningGainsBF on an effect slot's ChanMap {Scale 1, Index acn}:
\* gains[i] = chanmap.Scale * coeffs[chanmap.Index] * ingain, squared.
PanningGainsBFSq(coeffsSq, ingain) ==
    [acn \in DOMAIN coeffsSq |-> coeffsSq[acn] * ingain * ingain]

\* The gains of a mono source with one send: the dry and wet gains, then
\* the send's target gains.
CalcGains ==
    /\ gainpc = "ready"
    /\ DryGain' = MixGain(gainIn.Gain, gainIn.MinGain, gainIn.MaxGain, gainIn.DirectGain,
                          gainIn.ListenerGain)
    /\ WetGain' = MixGain(gainIn.Gain, gainIn.MinGain, gainIn.MaxGain, gainIn.SendGain,
                          gainIn.ListenerGain)
    /\ TargetSq' = PanningGainsBFSq(AmbiCoeffsSq(gainIn.dir, gainIn.fullSpread), WetGain')
    /\ gainpc' = "done"
    /\ UNCHANGED <<gainOthers, gainIn>>

GainInputs ==
    [Gain : {0, 1, 2, 4}, MinGain : 0..1, MaxGain : {2}, DirectGain : 1..2, SendGain : 1..2,
     ListenerGain : {2, 4, 8}, dir : Directions, fullSpread : BOOLEAN]
GainIdle ==
    /\ gainIn = [Gain |-> 0, MinGain |-> 0, MaxGain |-> 2, DirectGain |-> 1, SendGain |-> 1,
                 ListenerGain |-> 2, dir |-> <<0, 0, -5>>, fullSpread |-> FALSE]
    /\ DryGain = 0 /\ WetGain = 0 /\ TargetSq = [acn \in 0..3 |-> 0] /\ gainpc = "done"
GainStart ==
    /\ gainIn \in GainInputs
    /\ DryGain = 0 /\ WetGain = 0 /\ TargetSq = [acn \in 0..3 |-> 0] /\ gainpc = "ready"

(* ------------------------------------------------ SampleConv, in full *)
\* Largest sample magnitude converted, in units of 1/256 of full scale.
MaxSample == 300
\* Bits of each integer sample type; the 32-bit types are held without
\* their low 7 bits, which <<7 leaves zero.
HeldBits(T) ==
    CASE T \in {"DevFmtByte", "DevFmtUByte"} -> 8
      [] T \in {"DevFmtShort", "DevFmtUShort"} -> 16
      [] T \in {"DevFmtInt", "DevFmtUInt"} -> 25
\* The value an integer has once stored in a signed or unsigned type of w bits.
AsSigned(v, w) == ((v + 2 ^ (w - 1)) % (2 ^ w)) - 2 ^ (w - 1)
AsUnsigned(v, w) == v % (2 ^ w)
\* val * 2^(w-1) for val in units of 1/256.
Scaled(val, w) == IF w >= 9 THEN Frac(val * 2 ^ (w - 9), 1) ELSE Frac(val * 2 ^ (w - 1), 256)
clampFrac(a, lo, hi) ==
    IF a.n < lo * a.d THEN Frac(lo, 1) ELSE IF a.n > hi * a.d THEN Frac(hi, 1) ELSE a
\* Faulty variant: the scaled sample is clamped to [-1, +1] times the scale.
SignedConvSymmetric(w, val, mode) ==
    AsSigned(fastf2i(clampFrac(Scaled(val, w), -(2 ^ (w - 1)), 2 ^ (w - 1)),
                     mode), w)
\* SampleConv<ALbyte>, <ALshort>, <ALint>:
\* fastf2i(clampf(val * 2^(w-1), -2^(w-1), 2^(w-1) - 1)), val in 1/256.
SignedConv(w, val, mode) ==
    AsSigned(fastf2i(clampFrac(Scaled(val, w), -(2 ^ (w - 1)), 2 ^ (w - 1) - 1),
                     mode), w)
\* SampleConv<T>: the signed conversion, and for the unsigned types the bias
\* added to it; a float stays as it is (here in 1/256).
SampleConvFull(T, val, mode) ==
    IF T = "DevFmtFloat" THEN val
    ELSE IF T \in {"DevFmtByte", "DevFmtShort", "DevFmtInt"}
    THEN SignedConv(HeldBits(T), val, mode)
    ELSE AsUnsigned(SignedConv(HeldBits(T), val, mode) + 2 ^ (HeldBits(T) - 1), HeldBits(T))

\* One sample is converted for the device's type.
ConvertSample ==
    /\ convpc = "ready"
    /\ convOut' = SampleConvFull(convIn.T, convIn.val, convIn.mode)
    /\ convpc' = "done"
    /\ UNCHANGED <<convOthers, convIn>>

ConvInputs ==
    [T : DevFmtTypes, val : (-MaxSample)..MaxSample, mode : {"truncate", "nearest"}]
ConvIdle ==
    /\ convIn = [T |-> "DevFmtFloat", val |-> 0, mode |-> "truncate"]
    /\ convOut = 0 /\ convpc = "done"
ConvStart ==
    /\ convIn \in ConvInputs
    /\ convOut = 0 /\ convpc = "ready"

(* --------------------------------------------------- reading the clock *)
\* How many times the reader takes the device clock.
MaxReads == 2
ClockFields == {"SamplesDone", "ClockBase"}
\* refcount = ReadRef(&device->MixCount), repeated while it is odd.
ReadCountFirst ==
    /\ rpc = "begin"
    /\ rcount' = MixCount
    /\ rpc' = IF MixCount % 2 = 1 THEN "begin" ELSE "fields"
    /\ rleft' = ClockFields
    /\ UNCHANGED <<clockOthers, rdone, rbase, reads, rok>>
\* The two fields of the clock are read one after the other, in either order.
ReadField(f) ==
    /\ rpc = "fields" /\ f \in rleft
    /\ rdone' = IF f = "SamplesDone" THEN SamplesDone ELSE rdone
    /\ rbase' = IF f = "ClockBase" THEN ClockBase ELSE rbase
    /\ rleft' = rleft \ {f}
    /\ rpc' = IF rleft = {f} THEN "check" ELSE "fields"
    /\ UNCHANGED <<clockOthers, rcount, reads, rok>>
\* while(refcount != ReadRef(&device->MixCount)): the pair is kept when the
\* count has not moved, and read again when it has.
ReadCountSecond ==
    /\ rpc = "check"
    /\ IF MixCount = rcount
         THEN /\ rpc' = "accepted"
              /\ rok' = (rdone = SamplesDone /\ rbase = ClockBase)
              /\ reads' = reads + 1
         ELSE /\ rpc' = "begin"
              /\ UNCHANGED <<rok, reads>>
    /\ UNCHANGED <<clockOthers, rleft, rcount, rdone, rbase>>
\* The reader takes the clock again.
ReadAgain ==
    /\ rpc = "accepted" /\ reads < MaxReads
    /\ rpc' = "begin"
    /\ UNCHANGED <<clockOthers, rleft, rcount, rdone, rbase, reads, rok>>
ClockIdle ==
    /\ rpc = "idle" /\ rleft = {} /\ rcount = 0 /\ rdone = 0 /\ rbase = 0
    /\ reads = 0 /\ rok = TRUE
ClockStart ==
    /\ rpc = "begin" /\ rleft = {} /\ rcount = 0 /\ rdone = 0 /\ rbase = 0
    /\ reads = 0 /\ rok = TRUE
ReaderNext ==
    \/ ReadCountFirst \/ ReadCountSecond \/ ReadAgain
    \/ \E f \in ClockFields : ReadField(f)

(* ------------------------------------- concurrent aluHandleDisconnect calls *)
\* The threads that may call aluHandleDisconnect on one device, and the calls
\* each of them makes.
NumCallers == 2
MaxRaceCalls == 2
Callers == 1..NumCallers
\* A thread enters aluHandleDisconnect(device, msg).
RaceCall(t) ==
    /\ dpc[t] = "idle" /\ dcalls[t] < MaxRaceCalls
    /\ dcalls' = [dcalls EXCEPT ![t] = @ + 1]
    /\ dpc' = [dpc EXCEPT ![t] = "xchg"]
    /\ UNCHANGED <<raceOthers, Connected, Voices, evtVars, dctx, dvidx, dlog, entered>>
\* Faulty variant: the flag is loaded and left as it is.
RaceLoadOnly(t) ==
    /\ dpc[t] = "xchg"
    /\ IF Connected /\ ContextListHead # 0
         THEN /\ dpc' = [dpc EXCEPT ![t] = "ctx"]
              /\ dctx' = [dctx EXCEPT ![t] = ContextListHead]
              /\ entered' = entered + 1
         ELSE /\ dpc' = [dpc EXCEPT ![t] = "idle"]
              /\ UNCHANGED <<dctx, entered>>
    /\ UNCHANGED <<raceOthers, Connected, Voices, evtVars, dvidx, dcalls, dlog>>
\* if(!device->Connected.exchange(false)) return; ctx = device->ContextList.load().
RaceExchange(t) ==
    /\ dpc[t] = "xchg"
    /\ Connected' = FALSE
    /\ IF Connected /\ ContextListHead # 0
         THEN /\ dpc' = [dpc EXCEPT ![t] = "ctx"]
              /\ dctx' = [dctx EXCEPT ![t] = ContextListHead]
              /\ entered' = entered + 1
         ELSE /\ dpc' = [dpc EXCEPT ![t] = "idle"]
              /\ UNCHANGED <<dctx, entered>>
    /\ UNCHANGED <<raceOthers, Voices, evtVars, dvidx, dcalls, dlog>>
\* The Disconnected event of the context, written and posted when the type is
\* enabled and the ring's write vector has room.
RaceEvent(t) ==
    /\ dpc[t] = "ctx"
    /\ LET c == dctx[t]
       IN  IF CanSend(c, EventType_Disconnected)
             THEN /\ AsyncEvents' = [AsyncEvents EXCEPT ![c] = RingWrite(@, DisconnectedEvent)]
                  /\ EventSem' = [EventSem EXCEPT ![c] = @ + 1]
                  /\ dlog' = [dlog EXCEPT ![c] = Append(@, DisconnectedEvent)]
             ELSE UNCHANGED <<evtVars, dlog>>
    /\ dvidx' = [dvidx EXCEPT ![t] = 1]
    /\ dpc' = [dpc EXCEPT ![t] = "voice"]
    /\ UNCHANGED <<raceOthers, Connected, Voices, dctx, dcalls, entered>>
\* One turn of the voice loop: a playing voice with a source loses its
\* SourceID and Playing and SendSourceStoppedEvent is called for it; after
\* the last voice, ctx = ctx->next.
RaceVoice(t) ==
    /\ dpc[t] = "voice"
    /\ LET c == dctx[t]
           v == dvidx[t]
       IN  IF v > VoiceCount
             THEN /\ dctx' = [dctx EXCEPT ![t] = NextContext(c)]
                  /\ dpc' = [dpc EXCEPT ![t] = IF NextContext(c) = 0 THEN "idle" ELSE "ctx"]
                  /\ UNCHANGED <<Voices, evtVars, dvidx, dlog>>
             ELSE /\ dvidx' = [dvidx EXCEPT ![t] = v + 1]
                  /\ UNCHANGED <<dctx, dpc>>
                  /\ IF IsStopped(Voices[c][v])
                       THEN /\ Voices' = [Voices EXCEPT ![c][v].SourceID = 0,
                                                        ![c][v].Playing = FALSE]
                            /\ IF CanSend(c, EventType_SourceStateChange)
                                 THEN LET evt == SourceStoppedEvent(Voices[c][v].SourceID)
                                      IN  /\ AsyncEvents' = [AsyncEvents EXCEPT ![c] =
                                                                RingWrite(@, evt)]
                                          /\ EventSem' = [EventSem EXCEPT ![c] = @ + 1]
                                          /\ dlog' = [dlog EXCEPT ![c] = Append(@, evt)]
                                 ELSE UNCHANGED <<evtVars, dlog>>
                       ELSE UNCHANGED <<Voices, evtVars, dlog>>
    /\ UNCHANGED <<raceOthers, Connected, dcalls, entered>>
RaceIdle ==
    /\ dpc = [t \in Callers |-> "off"]
    /\ dctx = [t \in Callers |-> 0] /\ dvidx = [t \in Callers |-> 0]
    /\ dcalls = [t \in Callers |-> 0]
    /\ dlog = [c \in Contexts |-> <<>>] /\ entered = 0
RaceStart ==
    /\ dpc = [t \in Callers |-> "idle"]
    /\ dctx = [t \in Callers |-> 0] /\ dvidx = [t \in Callers |-> 0]
    /\ dcalls = [t \in Callers |-> 0]
    /\ dlog = [c \in Contexts |-> <<>>] /\ entered = 0

(* ------------------------------------ ApplyDistanceComp: delay and gain *)
\* Gains are held in units of 1/GainDen, output samples likewise; a run
\* feeds at most MaxStream samples.
GainDen == 2
MaxStream == 6
\* The input sample at place n of the stream, after a choice of its low bit.
StreamSample(n, bit) == 2 * n + bit
\* ApplyDistanceComp on one channel: without a delay the samples are scaled
\* only if gain < 1.0f; with one, what leaves the delay line is scaled.
ApplyDistanceComp(inout, dc, todo) ==
    LET moved == DistanceComp(inout, dc, todo)
        scaled == [i \in 1..todo |-> moved.out[i] * dc.Gain]
        asis == [i \in 1..todo |-> moved.out[i] * GainDen]
    IN  IF dc.Length <= 0 /\ ~(dc.Gain < GainDen)
          THEN [out |-> asis, dc |-> moved.dc]
          ELSE [out |-> scaled, dc |-> moved.dc]
\* One quantum of todo samples goes through the channel.
CompensateQuantum(todo, bits) ==
    /\ Len(fed) + todo <= MaxStream
    /\ LET inout == [i \in 1..todo |-> StreamSample(Len(fed) + i, bits[i])]
           r == ApplyDistanceComp(inout, distcomp, todo)
       IN  /\ fed' = fed \o inout
           /\ got' = got \o r.out
           /\ distcomp' = r.dc
    /\ UNCHANGED delayOthers
DelayIdle ==
    /\ distcomp = [Length |-> 0, Gain |-> GainDen, Buffer |-> <<>>]
    /\ fed = <<>> /\ got = <<>>
\* InitDistanceComp: Length is clamped to 0..MAX_DELAY_LENGTH-1, Gain is
\* Distance / maxdist, the buffer is value-initialised.
DelayStart ==
    /\ \E len \in 0..MaxDelay, gain \in 0..GainDen :
          distcomp = [Length |-> len, Gain |-> gain, Buffer |-> [i \in 1..len |-> 0]]
    /\ fed = <<>> /\ got = <<>>

(* ------------------------------------------------- Uhj2Encoder::encode *)
\* The inner loop's chunk (MAX_UPDATE_SAMPLES), the longest encode call and
\* the longest run of samples.
MAX_UPDATE_SAMPLES == 2
MaxEncode == 3
MaxUhj == 4
\* The filter coefficients and the mixing weights, held as small whole
\* numbers; the outputs are held in halves, (S + D) for (S + D) * 0.5f.
Filter1CoeffSqr == <<1, 2, 1, 2>>
Filter2CoeffSqr == <<2, 1, 2, 1>>
UhjWeights == [DY |-> 2, DW |-> -1, DX |-> 2, SW |-> 3, SX |-> 1]
\* allpass_process(state, dst, src, aa, todo): the state and dst afterwards.
RECURSIVE allpass_process(_, _, _)
allpass_process(state, src, aa) ==
    IF src = <<>> THEN [state |-> state, dst |-> <<>>]
    ELSE LET input == Head(src)
             output == input * aa + state[1]
             rest == allpass_process(<<state[2], output * aa - input>>, Tail(src), aa)
         IN  [state |-> rest.state, dst |-> <<output>> \o rest.dst]
\* The four chained allpass_process calls of one filter chain.
AllPassChain(filters, src, coeffs) ==
    LET s1 == allpass_process(filters[1], src, coeffs[1])
        s2 == allpass_process(filters[2], s1.dst, coeffs[2])
        s3 == allpass_process(filters[3], s2.dst, coeffs[3])
        s4 == allpass_process(filters[4], s3.dst, coeffs[4])
    IN  [filters |-> <<s1.state, s2.state, s3.state, s4.state>>, dst |-> s4.dst]
\* Faulty variant: every chunk starts from silence.
DelayedFromZero(last, dst) == <<0>> \o SubSeq(dst, 1, Len(dst) - 1)
\* D[0] = mLastY; for(i = 1; i < todo; i++) D[i] = temp[0][i-1];
Delayed(last, dst) == <<last>> \o SubSeq(dst, 1, Len(dst) - 1)
\* One turn of encode's loop over todo = Len(ins) samples <<W, X, Y>>: the
\* encoder afterwards and what is added to <<left, right>>.
EncodeChunk(e, ins) ==
    LET todo == Len(ins)
        y == AllPassChain(e.mFilter1_Y, [i \in 1..todo |-> UhjWeights.DY * ins[i][3]],
                          Filter1CoeffSqr)
        wx2 == AllPassChain(e.mFilter2_WX,
                            [i \in 1..todo |-> UhjWeights.DW * ins[i][1]
                                                 + UhjWeights.DX * ins[i][2]],
                            Filter2CoeffSqr)
        wx1 == AllPassChain(e.mFilter1_WX,
                            [i \in 1..todo |-> UhjWeights.SW * ins[i][1]
                                                 + UhjWeights.SX * ins[i][2]],
                            Filter1CoeffSqr)
        D == [i \in 1..todo |-> Delayed(e.mLastY, y.dst)[i] + wx2.dst[i]]
        S == Delayed(e.mLastWX, wx1.dst)
    IN  [enc |-> [mFilter1_Y |-> y.filters, mFilter2_WX |-> wx2.filters,
                  mFilter1_WX |-> wx1.filters,
                  mLastY |-> y.dst[todo], mLastWX |-> wx1.dst[todo]],
         out |-> [i \in 1..todo |-> <<S[i] + D[i], S[i] - D[i]>>]]
\* encode: for(base = 0; base < SamplesToDo;) { todo = mini(SamplesToDo - base,
\* MAX_UPDATE_SAMPLES); ...; base += todo; }
RECURSIVE encode(_, _)
encode(e, ins) ==
    IF ins = <<>> THEN [enc |-> e, out |-> <<>>]
    ELSE LET todo == Min(Len(ins), MAX_UPDATE_SAMPLES)
             chunk == EncodeChunk(e, SubSeq(ins, 1, todo))
             rest == encode(chunk.enc, SubSeq(ins, todo + 1, Len(ins)))
         IN  [enc |-> rest.enc, out |-> chunk.out \o rest.out]
\* A Uhj2Encoder as constructed: z{0.0f, 0.0f}, mLastY{0.0f}, mLastWX{0.0f}.
NewFilters == <<<<0, 0>>, <<0, 0>>, <<0, 0>>, <<0, 0>>>>
NewEncoder ==
    [mFilter1_Y |-> NewFilters, mFilter2_WX |-> NewFilters, mFilter1_WX |-> NewFilters,
     mLastY |-> 0, mLastWX |-> 0]
\* One encode call on SamplesToDo = Len(ins) samples.
EncodeCall(ins) ==
    /\ Len(uin) + Len(ins) <= MaxUhj
    /\ LET r == encode(enc, ins)
       IN  /\ enc' = r.enc
           /\ uout' = uout \o r.out
    /\ uin' = uin \o ins
    /\ UNCHANGED uhjOthers
UhjIdle == enc = NewEncoder /\ uin = <<>> /\ uout = <<>>
UhjStart == enc = NewEncoder /\ uin = <<>> /\ uout = <<>>
BFormatSamples == {0, 1} \X {0, 1} \X {0, 1}

(* ------------------------------------------------ renderer initialisation *)
\* aluInitRenderer sets up the dry ambisonic bus of a device from its channel
\* layout, the configuration and, for surround layouts, an ambdec preset.

\* Speakers a preset may hold before it is refused.
MAX_OUTPUT_CHANNELS == 2
\* Highest ambisonic order of an Ambi3D device.
MAX_AMBI_ORDER == 3

DevFmtChannels == {"Mono", "Stereo", "Quad", "X51", "X51Rear", "X61", "X71", "Ambi3D"}
\* Speaker labels a preset is given here: two the code names, one of the
\* AUX<n> kind, one it does not know.
SpeakerNames == {"LF", "LS", "AUX0", "XX"}

\* The output channels each layout's ChannelMap names, in its order.
ChannelMap(fmt) ==
    CASE fmt = "Mono" -> <<"FrontCenter">>
      [] fmt = "Stereo" -> <<"FrontLeft", "FrontRight">>
      [] fmt = "Quad" -> <<"BackLeft", "FrontLeft", "FrontRight", "BackRight">>
      [] fmt = "X51" -> <<"SideLeft", "FrontLeft", "FrontRight", "SideRight">>
      [] fmt = "X51Rear" -> <<"BackLeft", "FrontLeft", "FrontRight", "BackRight">>
      [] fmt = "X61" -> <<"SideLeft", "FrontLeft", "FrontRight", "SideRight", "BackCenter">>
      [] fmt = "X71" -> <<"BackLeft", "SideLeft", "FrontLeft", "FrontRight", "SideRight",
                          "BackRight">>
      [] OTHER -> <<>>

\* GetChannelIdxByName over the channels the layout's decoder feeds.
GetChannelIdxByName(fmt, ch) ==
    IF \E i \in 1..Len(ChannelMap(fmt)) : ChannelMap(fmt)[i] = ch
    THEN (CHOOSE i \in 1..Len(ChannelMap(fmt)) : ChannelMap(fmt)[i] = ch) - 1
    ELSE -1

\* map_spkr of MakeSpeakerMap: the output channel index of a preset speaker,
\* -1 when the label is not recognised or the device has no such channel.
map_spkr(fmt, name) ==
    LET ch == CASE name = "LF" -> "FrontLeft"
                [] name = "RF" -> "FrontRight"
                [] name = "CE" -> "FrontCenter"
                [] name = "LS" -> IF fmt = "X51Rear" THEN "BackLeft" ELSE "SideLeft"
                [] name = "RS" -> IF fmt = "X51Rear" THEN "BackRight" ELSE "SideRight"
                [] name = "LB" -> IF fmt = "X51" THEN "SideLeft" ELSE "BackLeft"
                [] name = "RB" -> IF fmt = "X51" THEN "SideRight" ELSE "BackRight"
                [] name = "CB" -> "BackCenter"
                [] name = "AUX0" -> "Aux0"
                [] OTHER -> "none"
    IN  IF ch = "none" THEN -1 ELSE GetChannelIdxByName(fmt, ch)

\* Faulty variant: one speaker with an output channel is enough.
MakeSpeakerMapAny(fmt, speakers) ==
    \E i \in 1..Len(speakers) : map_spkr(fmt, speakers[i]) # -1
\* MakeSpeakerMap: success when no speaker got -1.
MakeSpeakerMap(fmt, speakers) ==
    \A i \in 1..Len(speakers) : map_spkr(fmt, speakers[i]) # -1

\* conf.ChanMask > AMBI_<n>ORDER_MASK, the mask given by the order of its
\* highest channel (4 for one above third order).
AboveOrderMask(mask, n) == mask.order > n

\* Faulty variant: four coefficients for every layout with speakers around.
coeffcountFull(fmt) ==
    CASE fmt = "Mono" -> 1
      [] OTHER -> 4
\* coeffcount of InitPanning's switch.
coeffcount(fmt) ==
    CASE fmt = "Mono" -> 1
      [] fmt = "Stereo" -> 3
      [] fmt = "Quad" -> 3
      [] fmt = "X51" -> 5
      [] fmt = "X51Rear" -> 5
      [] fmt = "X61" -> 5
      [] fmt = "X71" -> 7
      [] OTHER -> 0

\* The first lines of aluInitRenderer: what an earlier call set is dropped.
ResetRenderer(r) ==
    [r EXCEPT !.RenderMode = "NormalRender", !.AvgSpeakerDist = "zero",
              !.DistanceComp = "none", !.AmbiDecoder = "none"]

\* InitNearFieldCtrl: nothing when the nfc option is off or the distance is
\* not positive (c.nfc false), else AvgSpeakerDist from the given distance.
InitNearFieldCtrl(r, c, from) ==
    IF ~c.nfc THEN r ELSE [r EXCEPT !.AvgSpeakerDist = from]

\* InitPanning: the bus of an Ambi3D device follows its order; every other
\* layout gets the built-in decoder with coeffcount horizontal channels.
InitPanning(fmt, order, c, r) ==
    IF fmt = "Ambi3D"
    THEN [Dry |-> [NumChannels |-> IF order = 3 THEN 16 ELSE IF order = 2 THEN 9
                                   ELSE IF order = 1 THEN 4 ELSE 1,
                   Order |-> order, Periphonic |-> TRUE],
          renderer |-> InitNearFieldCtrl([r EXCEPT !.path = "InitPanning"], c, "config")]
    ELSE [Dry |-> [NumChannels |-> coeffcount(fmt),
                   Order |-> IF coeffcount(fmt) > 5 THEN 3
                             ELSE IF coeffcount(fmt) > 3 THEN 2 ELSE 1,
                   Periphonic |-> FALSE],
          renderer |-> [r EXCEPT !.path = "InitPanning", !.AmbiDecoder = "builtin"]]

\* The bus a preset asks for, in InitCustomPanning and InitHQPanning alike.
PresetBus(mask) ==
    [NumChannels |-> IF mask.periphonic
                     THEN (IF AboveOrderMask(mask, 2) THEN 16
                           ELSE IF AboveOrderMask(mask, 1) THEN 9 ELSE 4)
                     ELSE (IF AboveOrderMask(mask, 2) THEN 7
                           ELSE IF AboveOrderMask(mask, 1) THEN 5 ELSE 3),
     Order |-> IF AboveOrderMask(mask, 2) THEN 3
               ELSE IF AboveOrderMask(mask, 1) THEN 2 ELSE 1,
     Periphonic |-> mask.periphonic]

\* InitCustomPanning: the preset's decoder and InitDistanceComp.
InitCustomPanning(c, r) ==
    [Dry |-> PresetBus(c.ChanMask),
     renderer |-> [r EXCEPT !.path = "InitCustomPanning", !.AmbiDecoder = "preset",
                            !.DistanceComp = "preset"]]

\* InitHQPanning: as well InitNearFieldCtrl with the speakers' distance.
InitHQPanning(c, r) ==
    [Dry |-> PresetBus(c.ChanMask),
     renderer |-> [InitNearFieldCtrl(r, c, "preset")
                       EXCEPT !.path = "InitHQPanning", !.AmbiDecoder = "preset",
                              !.DistanceComp = "preset"]]

\* InitHrtfPanning: four channels under full HRTF rendering, else the nine of
\* IndexMap.
InitHrtfPanning(c, r) ==
    [Dry |-> [NumChannels |-> IF r.RenderMode # "HrtfRender" THEN 9 ELSE 4,
              Order |-> IF r.RenderMode # "HrtfRender" THEN 2 ELSE 1,
              Periphonic |-> TRUE],
     renderer |-> [InitNearFieldCtrl(r, c, "hrtf") EXCEPT !.path = "InitHrtfPanning"]]

\* InitUhjPanning: W, X and Y.
InitUhjPanning(r) ==
    [Dry |-> [NumChannels |-> 3, Order |-> 1, Periphonic |-> FALSE],
     renderer |-> [r EXCEPT !.path = "InitUhjPanning"]]

\* aluInitRenderer.
aluInitRenderer ==
    /\ ~renderer.done
    /\ LET r0 == ResetRenderer(renderer)
           layout == FmtChans \in {"Quad", "X51", "X51Rear", "X61", "X71"}
           pconf == /\ layout
                    /\ cfg.decoder # "none"
                    /\ cfg.decoder # "fails"
                    /\ ~(Len(cfg.Speakers) > MAX_OUTPUT_CHANNELS)
                    /\ ~AboveOrderMask(cfg.ChanMask, 3)
                    /\ MakeSpeakerMap(FmtChans, cfg.Speakers)
           hrtfmode == IF cfg.hrtfmode = "basic" THEN "NormalRender" ELSE "HrtfRender"
           pair == [r0 EXCEPT !.RenderMode = "StereoPair"]
           res == IF FmtChans # "Stereo"
                  THEN IF ~pconf THEN InitPanning(FmtChans, mAmbiOrder, cfg, r0)
                       ELSE IF cfg.hq THEN InitHQPanning(cfg, r0)
                       ELSE InitCustomPanning(cfg, r0)
                  ELSE IF cfg.usehrtf /\ cfg.hrtfFound
                  THEN InitHrtfPanning(cfg, [r0 EXCEPT !.RenderMode = hrtfmode])
                  ELSE IF cfg.cf_level > 0 /\ cfg.cf_level <= 6
                  THEN InitPanning(FmtChans, mAmbiOrder, cfg, pair)
                  ELSE IF cfg.stereoenc = "uhj"
                  THEN InitUhjPanning([r0 EXCEPT !.RenderMode = "NormalRender"])
                  ELSE InitPanning(FmtChans, mAmbiOrder, cfg, pair)
       IN  /\ Dry' = res.Dry
           /\ renderer' = [res.renderer EXCEPT !.done = TRUE]
    /\ UNCHANGED <<FmtChans, mAmbiOrder, cfg, panOthers>>

\* No preset, nothing asked for.
NoConfig ==
    [decoder |-> "none", Speakers |-> <<>>, ChanMask |-> [order |-> 1, periphonic |-> FALSE],
     hq |-> FALSE, nfc |-> FALSE, usehrtf |-> FALSE, hrtfFound |-> FALSE,
     hrtfmode |-> "full", cf_level |-> 0, stereoenc |-> "panpot"]

\* The presets a decoder option can name: files of up to one speaker more than
\* is accepted, with channel masks of first order up to one above third.
Presets ==
    { [NoConfig EXCEPT !.decoder = "loaded", !.Speakers = s,
                       !.ChanMask = [order |-> o, periphonic |-> p], !.hq = h, !.nfc = n] :
        s \in UNION { [1..k -> SpeakerNames] : k \in 1..(MAX_OUTPUT_CHANNELS + 1) },
        o \in 1..(MAX_AMBI_ORDER + 1), p \in BOOLEAN, h \in BOOLEAN, n \in BOOLEAN }

\* What aluInitRenderer can find configured for a device of the layout.
Configs(fmt) ==
    CASE fmt = "Stereo" ->
           { [NoConfig EXCEPT !.usehrtf = u, !.hrtfFound = f, !.hrtfmode = m, !.nfc = n,
                              !.cf_level = l, !.stereoenc = e] :
               u \in BOOLEAN, f \in BOOLEAN, m \in {"full", "basic"}, n \in BOOLEAN,
               l \in {0, 5, 7}, e \in {"panpot", "uhj"} }
      [] fmt = "Ambi3D" -> { [NoConfig EXCEPT !.nfc = n] : n \in BOOLEAN }
      [] fmt = "Mono" -> {NoConfig}
      [] OTHER -> {NoConfig, [NoConfig EXCEPT !.decoder = "fails"]} \cup Presets

\* The device as constructed, and as a call with a preset in hq-mode left it.
NewRenderer ==
    [done |-> FALSE, path |-> "none", RenderMode |-> "NormalRender",
     AmbiDecoder |-> "none", DistanceComp |-> "none", AvgSpeakerDist |-> "zero"]
UsedRenderer ==
    [done |-> FALSE, path |-> "InitHQPanning", RenderMode |-> "NormalRender",
     AmbiDecoder |-> "preset", DistanceComp |-> "preset", AvgSpeakerDist |-> "preset"]

PanIdle ==
    /\ FmtChans = "Mono" /\ mAmbiOrder = 0
    /\ cfg = [decoder |-> "none", Speakers |-> <<>>,
              ChanMask |-> [order |-> 1, periphonic |-> FALSE],
              hq |-> FALSE, nfc |-> FALSE, usehrtf |-> FALSE, hrtfFound |-> FALSE,
              hrtfmode |-> "full", cf_level |-> 0, stereoenc |-> "panpot"]
    /\ Dry = [NumChannels |-> 0, Order |-> 0, Periphonic |-> FALSE]
    /\ renderer = [done |-> TRUE, path |-> "none", RenderMode |-> "NormalRender",
                   AmbiDecoder |-> "none", DistanceComp |-> "none",
                   AvgSpeakerDist |-> "zero"]
PanStart ==
    /\ FmtChans \in DevFmtChannels
    /\ mAmbiOrder \in IF FmtChans = "Ambi3D" THEN 1..MAX_AMBI_ORDER ELSE {0}
    /\ cfg \in Configs(FmtChans)
    /\ Dry = [NumChannels |-> 0, Order |-> 0, Periphonic |-> FALSE]
    /\ renderer \in {NewRenderer, UsedRenderer}

(* --------------------------------------------------------- specifications *)
Kinds == {"context", "listener", "slot", "voice"}
\* The effect state slot s of context c is created with.
InitialState(c, s) == (c - 1) * NumSlots + s
IdleVoice == [SourceID |-> 0, Playing |-> FALSE, Step |-> 0]
PlayingVoice(c, v) == [SourceID |-> SourceOf(c, v), Playing |-> TRUE, Step |-> 1]
PausedVoice(c, v) == [SourceID |-> SourceOf(c, v), Playing |-> FALSE, Step |-> 1]
SilentVoice(c, v) == [SourceID |-> SourceOf(c, v), Playing |-> TRUE, Step |-> 0]
EventMasks == SUBSET {EventType_SourceStateChange, EventType_Disconnected}

\* What holds after construction whatever the device format and the sources.
InitBase ==
    /\ Connected = TRUE
    /\ MixCount = 0 /\ SamplesDone = 0 /\ ClockBase = 0
    /\ HoldUpdates = [c \in Contexts |-> FALSE]
    /\ AsyncEvents = [c \in Contexts |-> EmptyRing]
    /\ EventSem = [c \in Contexts |-> 0]
    /\ UpdateCount = [c \in Contexts |-> 0]
    /\ Update = [e \in Entities |-> 0]
    /\ Params = [e \in Entities |->
                   [val |-> 0,
                    mEffectState |-> IF KindOf(e) = "slot" THEN InitialState(e[2], e[3])
                                                           ELSE 0]]
    /\ PropsMem = [b \in Blocks |-> [val |-> 0, State |-> 0]]
    /\ FreeProps = [c \in Contexts |-> [k \in Kinds |-> <<>>]]
    /\ mRef = [s \in States |-> IF s <= NumContexts * NumSlots THEN 2 ELSE 0]
    /\ SlotEffect = [e \in {E_slot(c, s) : c \in Contexts, s \in SlotIdx} |->
                       InitialState(e[2], e[3])]
    /\ pc = "idle"
    /\ NumSamples = 0 /\ MixDone = 0 /\ SamplesToDo = 0
    /\ RealOut = [c \in 0..(MaxChannels - 1) |-> [i \in 0..(BUFFERSIZE - 1) |-> 0]]
    /\ OutBuffer = FreshOutBuffer
    /\ ctx = 0 /\ vidx = 0 /\ sidx = 0 /\ sid = 0 /\ ret = "voice" /\ props = 0
    /\ cforce = FALSE /\ force = FALSE /\ oldstate = 0 /\ oldval = 0
    /\ apc = "idle" /\ aent = E_context(1) /\ aprops = 0 /\ astale = 0 /\ aoldstate = 0
    /\ calls = 0 /\ quanta = 0 /\ frames = 0 /\ pubs = 0 /\ holds = 0
    /\ evtlog = [c \in Contexts |-> <<>>]
    /\ posts = [c \in Contexts |-> 0]
    /\ exhausted = {} /\ dcPlaying = {} /\ dcRan = FALSE
    /\ lastPub = [e \in Entities |-> 0]
    /\ taken = [e \in Entities |-> 0]
    /\ applied = [e \in Entities |-> <<>>]
    /\ consumed = [e \in Entities |-> 0]
    /\ calcs = [e \in Entities |-> 0]
    /\ dropped = {} /\ heldq = FALSE /\ keptPending = {}

\* The voices of a context: playing ones first, then paused or silent ones,
\* then idle ones.
VoiceProfiles(c) ==
    {[v \in VoiceIdx |-> IF v <= np THEN PlayingVoice(c, v)
                         ELSE IF v <= np + 1 /\ other = "paused" THEN PausedVoice(c, v)
                         ELSE IF v <= np + 1 /\ other = "silent" THEN SilentVoice(c, v)
                         ELSE IdleVoice] :
        np \in 0..VoiceCount, other \in {"paused", "silent", "idle"}}

\* The pure computations are not running.
InitAux == SortIdle /\ BackendIdle /\ RenderIdle /\ CalcIdle /\ GainIdle /\ ConvIdle /\ ClockIdle /\ RaceIdle /\ DelayIdle /\ UhjIdle /\ PanIdle

\* Sources and event masks vary; the device renders one quantum per call.
Init ==
    /\ InitBase /\ InitAux
    /\ Frequency = MaxFrequency /\ NumChannels = 1 /\ FmtType = "DevFmtShort"
    /\ UpdateSize = BUFFERSIZE /\ WantOutput = TRUE
    /\ EnabledEvts \in [Contexts -> EventMasks]
    /\ Voices \in {f \in [Contexts -> UNION {VoiceProfiles(c) : c \in Contexts}] :
                      \A c \in Contexts : f[c] \in VoiceProfiles(c)}

\* The device format and the request size vary; one source plays.
InitMix ==
    /\ InitBase /\ InitAux
    /\ Frequency \in 1..MaxFrequency
    /\ NumChannels \in 1..MaxChannels
    /\ FmtType \in DevFmtTypes
    /\ UpdateSize \in 0..MaxFrames
    /\ WantOutput \in BOOLEAN
    /\ EnabledEvts = [c \in Contexts |-> {EventType_SourceStateChange,
                                          EventType_Disconnected}]
    /\ Voices = [c \in Contexts |-> [v \in VoiceIdx |->
                    IF c = 1 /\ v = 1 THEN PlayingVoice(c, v) ELSE IdleVoice]]

\* The API side publishes updates and defers them; one source plays and one
\* is bound.
InitUpdate ==
    /\ InitBase /\ InitAux
    /\ Frequency = MaxFrequency /\ NumChannels = 1 /\ FmtType = "DevFmtShort"
    /\ UpdateSize = 1 /\ WantOutput = FALSE
    /\ EnabledEvts = [c \in Contexts |-> {EventType_SourceStateChange,
                                          EventType_Disconnected}]
    /\ Voices = [c \in Contexts |-> [v \in VoiceIdx |->
                    IF c = 1 /\ v = 1 THEN PlayingVoice(c, v) ELSE IdleVoice]]

MixerNext ==
    \/ BackendMix \/ BackendDisconnect
    \/ LoopHead \/ ClearMixBuffers \/ IncrementMixCount1
    \/ ParamUpdatesBegin \/ ContextExchange \/ ListenerExchange \/ SlotExchange
    \/ VoiceExchange \/ ParamUpdatesEnd
    \/ MixVoice \/ StopSourceID \/ StopPlaying \/ SendSourceStoppedEvent \/ SendPost
    \/ ProcessEffects
    \/ AdvanceClock \/ IncrementMixCount2 \/ PostProcess \/ WriteOutput
    \/ DisconnectExchange \/ DisconnectEvent \/ DisconnectPost \/ DisconnectVoice

EventThread == \E c \in Contexts : EventThreadRead(c)

ConsumeNext ==
    \/ ContextApply \/ ListenerApply \/ VoiceApply
    \/ SlotApply \/ SlotDecrementRef \/ SlotReleaseState \/ SlotReleasePost \/ SlotRecycle

APINext ==
    \/ \E e \in Entities, newEffect \in BOOLEAN : APIBegin(e, newEffect)
    \/ APIFill \/ APIPublish \/ APIRecycle
    \/ APISetHold \/ APIClearHold

Next == MixerNext \/ EventThread
NextUpdate == MixerNext \/ ConsumeNext \/ EventThread \/ APINext

Spec == Init /\ [][Next]_vars
SpecMix == InitMix /\ [][Next]_vars
SpecUpdate == InitUpdate /\ [][NextUpdate]_vars

\* A device at rest: nothing plays and the backend makes no call.
InitQuiet ==
    /\ InitBase
    /\ Frequency = MaxFrequency /\ NumChannels = 1 /\ FmtType = "DevFmtShort"
    /\ UpdateSize = BUFFERSIZE /\ WantOutput = FALSE
    /\ EnabledEvts = [c \in Contexts |-> {}]
    /\ Voices = [c \in Contexts |-> [v \in VoiceIdx |-> IdleVoice]]

\* The effect slots of one context, in any array order and with any acyclic
\* Target chains, are sorted and processed.
InitSort == InitQuiet /\ SortStart /\ BackendIdle /\ RenderIdle /\ CalcIdle /\ GainIdle /\ ConvIdle /\ ClockIdle /\ RaceIdle /\ DelayIdle /\ UhjIdle /\ PanIdle
NextSort == SortFirst \/ SortInsert \/ ProcessSlot
SpecSort == InitSort /\ [][NextSort]_vars
\* The sort runs on the mixer thread, which is scheduled.
SpecSortFair == SpecSort /\ WF_vars(NextSort)

\* One backend of any of the three kinds is started, runs and is stopped; its
\* thread is scheduled fairly, and so is the thread waiting in join().
InitBackend == InitQuiet /\ SortIdle /\ BackendStart /\ RenderIdle /\ CalcIdle /\ GainIdle /\ ConvIdle /\ ClockIdle /\ RaceIdle /\ DelayIdle /\ UhjIdle /\ PanIdle
NextBackend ==
    \/ \E ok \in BOOLEAN : Start(ok)
    \/ StopCall \/ Join \/ ThreadNext
SpecBackend ==
    InitBackend /\ [][NextBackend]_vars /\ WF_vars(ThreadNext) /\ WF_vars(Join)

(* ---------------------------------------------------------------- claims *)
\* Where the mixer thread is inside ProcessContext of a quantum.
StopPcs == {"stop_sid", "stop_play", "send", "send_post"}
InProcessContext ==
    \/ pc \in {"upd_begin", "upd_ctx", "upd_ctx_apply", "upd_lst", "upd_lst_apply",
               "upd_slot", "slot_apply", "slot_cas", "slot_release", "slot_post",
               "slot_recycle", "upd_voice", "voice_apply", "upd_end", "voice", "effects"}
    \/ pc \in StopPcs /\ ret = "voice"
\* Where no quantum is in flight: outside aluMixData and at its loop head.
AtQuantumBoundary == pc \in {"idle", "loop"}

\* C2: MixCount is even whenever no quantum is in flight (outside aluMixData
\* and between the quanta of a call), odd while the contexts, voices and
\* effect slots of a quantum are processed, and every quantum adds exactly 2.
C2_MixCountParity ==
    /\ AtQuantumBoundary => MixCount % 2 = 0 /\ MixCount = 2 * quanta
    /\ InProcessContext => MixCount % 2 = 1 /\ MixCount = 2 * quanta - 1
\* The third quantum of a run is processing its voices.
C2_Witness == pc = "voice" /\ quanta = 3 /\ MixCount = 5

\* C3: every quantum of N frames leaves SamplesDone = (SamplesDone + N) mod Fs
\* and adds floor((SamplesDone + N) / Fs) to ClockBase; so SamplesDone < Fs and
\* ClockBase*Fs + SamplesDone is the number of frames rendered.
C3_QuantumConservation ==
    /\ [](/\ SamplesDone < Frequency
          /\ ClockBase * Frequency + SamplesDone = frames)
    /\ [][pc = "clock" /\ pc' = "incr2" =>
            /\ SamplesToDo >= 1 /\ SamplesToDo <= BUFFERSIZE
            /\ SamplesDone' = (SamplesDone + SamplesToDo) % Frequency
            /\ ClockBase' - ClockBase = (SamplesDone + SamplesToDo) \div Frequency]_vars
\* A quantum has rolled a whole second into ClockBase and kept a remainder.
C3_Witness == pc = "incr2" /\ ClockBase >= 1 /\ SamplesDone >= 1 /\ quanta >= 2

\* C9: aluMixData with a buffer stores every position f*channels + c of the
\* frames rendered so far exactly once, with the converted sample of channel c
\* at frame f, and stores nothing elsewhere; without a buffer nothing is
\* stored; the call returns with all its frames rendered.
C9_InterleavedWrite ==
    /\ \A p \in DOMAIN OutBuffer :
          IF WantOutput /\ p < MixDone * NumChannels
            THEN OutBuffer[p] = <<SampleConv(FmtType, Rendered(p \div NumChannels,
                                                              p % NumChannels))>>
            ELSE OutBuffer[p] = <<>>
    /\ pc = "idle" => MixDone = NumSamples
    /\ MixDone <= NumSamples
\* A call for more than BUFFERSIZE frames on two channels has returned.
C9_Witness ==
    /\ pc = "idle" /\ WantOutput /\ NumChannels = 2 /\ NumSamples > 2 * BUFFERSIZE
    /\ MixDone = NumSamples /\ Len(OutBuffer[NumSamples * NumChannels - 1]) = 1

(* History read by the claims: what was enqueued, and what was not.         *)
\* How many times an event of this type and id was enqueued on context c.
Enqueued(c, type, id) ==
    Cardinality({i \in DOMAIN evtlog[c] : evtlog[c][i] = [type |-> type, id |-> id]})
\* The mixer thread is still between MixSource's report (or the disconnect
\* handler's test) and the end of SendSourceStoppedEvent for this source.
Stopping(c, s) == pc \in StopPcs /\ ctx = c /\ sid = s
\* The voice that plays source s of context c.
VoiceOf(c, s) == s - 10 * c
PostPcs == {"send_post", "dc_post", "slot_post"}
SendPcs == {"send", "dc_ctx", "slot_release"}
NoDuplicates(seq) == \A i, j \in DOMAIN seq : i # j => seq[i] # seq[j]

\* C1: the parameters applied when an entity's update is consumed are those
\* of the block published last before the consuming exchange; one quantum
\* consumes at most one block of an entity, and no block is applied twice.
C1_LatestBlockOnce ==
    /\ [](\A e \in Entities :
            /\ consumed[e] <= 1
            /\ NoDuplicates(applied[e])
            /\ \A i \in DOMAIN applied[e] : applied[e][i] <= lastPub[e]
            /\ Update[e] # 0 => PropsMem[Update[e]].val = lastPub[e])
    /\ [][\A e \in Entities :
            applied'[e] # applied[e] =>
                /\ applied'[e] = Append(applied[e], taken[e])
                /\ Params'[e].val = taken[e]]_vars
\* Two blocks were published for one entity before the mixer drained it: the
\* later one was applied and the earlier one never was.
C1_Witness ==
    \E e \in Entities : lastPub[e] = 2 /\ applied[e] = <<2>> /\ Params[e].val = 2

\* C4 (as amended): a source MixSource reported exhausted has its voice's
\* Playing flag cleared and its SourceStopped event enqueued at most once over
\* the whole run, and exactly once unless SendSourceStoppedEvent found the
\* event type disabled or the ring without room; it finds room and the type
\* enabled only to enqueue.
C4_StoppedAtMostOnce ==
    /\ [](\A x \in exhausted :
            LET c == x[1]
                s == x[2]
                n == Enqueued(c, EventType_SourceStateChange, s)
            IN  /\ n <= 1
                /\ ~Stopping(c, s) =>
                      /\ ~Voices[c][VoiceOf(c, s)].Playing
                      /\ n = 1 <=> <<c, EventType_SourceStateChange, s>> \notin dropped)
    /\ [][pc = "send" /\ pc' # pc =>
            IF EventType_SourceStateChange \in EnabledEvts[ctx]
               /\ WriteVectorFirstLen(AsyncEvents[ctx]) >= 1
              THEN /\ pc' = "send_post"
                   /\ evtlog'[ctx] = Append(evtlog[ctx],
                          [type |-> EventType_SourceStateChange, id |-> sid])
              ELSE evtlog' = evtlog /\ AsyncEvents' = AsyncEvents]_vars
\* C4 as stated: every exhausted source has exactly one SourceStopped event.
C4_Original ==
    \A x \in exhausted :
        ~Stopping(x[1], x[2]) => Enqueued(x[1], EventType_SourceStateChange, x[2]) = 1
\* A source ran out in a quantum, its event was enqueued, and a disconnect
\* went over its voice afterwards.
C4_Witness ==
    /\ pc = "idle" /\ dcRan
    /\ \E x \in exhausted : Enqueued(x[1], EventType_SourceStateChange, x[2]) = 1

\* C5 (as amended): every voice is idle or bound, except the one voice the
\* mixer thread is stopping, which has SourceID = 0 and Playing still set
\* between the two stores.
C5_IdleOrBound ==
    \A c \in Contexts, v \in VoiceIdx :
        (Voices[c][v].SourceID = 0 /\ Voices[c][v].Playing)
            => (pc = "stop_play" /\ ctx = c /\ vidx = v)
\* C5 as stated: no state has Playing set together with SourceID = 0.
C5_Original ==
    \A c \in Contexts, v \in VoiceIdx :
        ~(Voices[c][v].SourceID = 0 /\ Voices[c][v].Playing)
\* The disconnect handler has zeroed a voice's SourceID and not yet cleared
\* its Playing flag.
C5_Witness ==
    /\ pc = "stop_play" /\ ret = "dc_voice"
    /\ Voices[ctx][vidx].SourceID = 0 /\ Voices[ctx][vidx].Playing

\* C6 (as amended): the mixer never lowers an effect state's count to 0; its
\* compare-exchange succeeds only from a count above 1; with a count of 1 it
\* leaves the count alone and hands the state over in a ReleaseEffectState
\* event when the ring has room, and otherwise parks it in props->State.
C6_NoFinalReleaseByMixer ==
    /\ [](\A s \in States : mRef[s] >= 0)
    /\ [][(\E s \in States : mRef[s] > 0 /\ mRef'[s] = 0) =>
             (apc' # apc \/ \E c \in Contexts : AsyncEvents'[c].r # AsyncEvents[c].r)]_vars
    /\ [][pc = "slot_cas" /\ pc' = "slot_recycle" =>
             /\ mRef[oldstate] > 1
             /\ mRef'[oldstate] = mRef[oldstate] - 1]_vars
    /\ [][pc = "slot_cas" /\ pc' = "slot_release" => oldval' < 2 /\ mRef' = mRef]_vars
    /\ [][pc = "slot_release" /\ pc' # pc =>
             /\ mRef' = mRef
             /\ IF WriteVectorFirstLen(AsyncEvents[ctx]) > 0
                  THEN /\ evtlog'[ctx] = Append(evtlog[ctx],
                              [type |-> EventType_ReleaseEffectState, id |-> oldstate])
                       /\ PropsMem' = PropsMem
                  ELSE /\ evtlog' = evtlog
                       /\ PropsMem'[props].State = oldstate]_vars
\* C6 as stated: a state whose count was 1 always goes out in an event.
C6_Original ==
    [][pc = "slot_release" /\ pc' # pc =>
          evtlog'[ctx] = Append(evtlog[ctx],
              [type |-> EventType_ReleaseEffectState, id |-> oldstate])]_vars
\* The mixer found the old state's count at 1 and has enqueued its
\* ReleaseEffectState event; the count is still 1.
C6_Witness ==
    /\ pc = "slot_post" /\ mRef[oldstate] = 1 /\ oldval = 1
    /\ evtlog[ctx][Len(evtlog[ctx])] =
           [type |-> EventType_ReleaseEffectState, id |-> oldstate]

\* C7 (as amended): once aluHandleDisconnect has run on a connected device,
\* Connected is false, no voice is Playing, and each voice that was playing
\* has its SourceStopped event enqueued, each context its Disconnected event,
\* except the events whose type was disabled or that found the ring full.
C7_Disconnected ==
    /\ [](dcRan =>
            /\ ~Connected
            /\ \A c \in Contexts, v \in VoiceIdx : ~Voices[c][v].Playing
            /\ \A x \in dcPlaying :
                  Enqueued(x[1], EventType_SourceStateChange, x[3]) = 1
                      <=> <<x[1], EventType_SourceStateChange, x[3]>> \notin dropped
            /\ \A c \in Contexts :
                  Enqueued(c, EventType_Disconnected, 0) = 1
                      <=> <<c, EventType_Disconnected, 0>> \notin dropped)
    /\ [][pc = "dc_ctx" /\ pc' # pc =>
            IF EventType_Disconnected \in EnabledEvts[ctx]
               /\ WriteVectorFirstLen(AsyncEvents[ctx]) > 0
              THEN evtlog'[ctx] = Append(evtlog[ctx],
                       [type |-> EventType_Disconnected, id |-> 0])
              ELSE evtlog' = evtlog /\ AsyncEvents' = AsyncEvents]_vars
\* C7 as stated: every event of the disconnect has been posted.
C7_Original ==
    dcRan =>
        /\ \A x \in dcPlaying : Enqueued(x[1], EventType_SourceStateChange, x[3]) = 1
        /\ \A c \in Contexts : Enqueued(c, EventType_Disconnected, 0) = 1
\* A disconnect found two voices playing and every event went out.
C7_Witness ==
    /\ dcRan /\ pc = "idle" /\ Cardinality(dcPlaying) >= 2
    /\ \A x \in dcPlaying : Enqueued(x[1], EventType_SourceStateChange, x[3]) = 1
    /\ \A c \in Contexts : Enqueued(c, EventType_Disconnected, 0) = 1

\* C8: with no free write slot in the ring, the sender goes on without
\* enqueuing and without touching the ring, its state change being complete;
\* no event is enqueued twice; every enqueue moves the write index on by one
\* and is followed by one post of the semaphore.
C8_RingOverflow ==
    /\ [](\A c \in Contexts :
            /\ NoDuplicates(evtlog[c])
            /\ AsyncEvents[c].w = Len(evtlog[c]) % RingSize
            /\ EventSem[c] = posts[c]
            /\ posts[c] = Len(evtlog[c]) - (IF pc \in PostPcs /\ ctx = c THEN 1 ELSE 0))
    /\ [](pc \in SendPcs /\ WriteSpace(AsyncEvents[ctx]) = 0 =>
            /\ ENABLED (SendSourceStoppedEvent \/ DisconnectEvent \/ SlotReleaseState)
            /\ pc = "send" => /\ ~Voices[ctx][vidx].Playing
                              /\ Voices[ctx][vidx].SourceID = 0
            /\ pc = "dc_ctx" => ~Connected)
    /\ [][(pc' # pc /\ pc \in SendPcs /\ WriteSpace(AsyncEvents[ctx]) = 0) =>
             /\ AsyncEvents' = AsyncEvents
             /\ EventSem' = EventSem
             /\ evtlog' = evtlog
             /\ pc' \notin PostPcs]_vars
\* An event of each sender found the ring full on some context, whose ring
\* still holds the events queued before.
C8_Witness ==
    /\ pc = "idle"
    /\ \E c \in Contexts :
          /\ \E d \in dropped : d[1] = c
          /\ WriteSpace(AsyncEvents[c]) = 0
          /\ Queued(AsyncEvents[c]) = evtlog[c]

\* C10 (as amended): a quantum that finds HoldUpdates set consumes no update
\* of the context and recomputes nothing; the blocks it left pending are
\* consumed in the first later quantum that finds HoldUpdates clear, except
\* the block of a voice whose SourceID is 0 by then.
C10_HoldUpdates ==
    /\ [][heldq =>
            \A e \in Entities :
                CtxOf(e) = ctx =>
                    /\ taken'[e] = taken[e] /\ applied'[e] = applied[e]
                    /\ calcs'[e] = calcs[e] /\ Params'[e] = Params[e]
                    /\ consumed'[e] = consumed[e]
                    /\ Update[e] # 0 => Update'[e] # 0]_vars
    /\ [](pc = "upd_end" /\ ~heldq =>
            \A e \in keptPending :
                CtxOf(e) = ctx =>
                    \/ consumed[e] = 1
                    \/ KindOf(e) = "voice" /\ Voices[e[2]][e[3]].SourceID = 0)
\* C10 as stated: every block left pending by a held quantum is consumed in
\* the first later quantum that finds HoldUpdates clear.
C10_Original ==
    pc = "upd_end" /\ ~heldq =>
        \A e \in keptPending : CtxOf(e) = ctx => consumed[e] = 1
\* A block left pending by a held quantum has been consumed and applied in
\* the next quantum.
C10_Witness ==
    /\ pc = "upd_end" /\ ~heldq
    /\ \E e \in keptPending : CtxOf(e) = ctx /\ consumed[e] = 1 /\ applied[e] # <<>>

\* C11 (as amended): in a quantum MixCount is odd from the first IncrementRef,
\* which follows the clearing of the mix buffers, to the second one, which
\* follows the clock advance; the buffers are cleared, and the output is
\* post-processed and written, while MixCount is even.
C11_OddSpan ==
    /\ pc \in {"clear", "incr1"} => MixCount = 2 * (quanta - 1)
    /\ (InProcessContext \/ pc \in {"clock", "incr2"}) => MixCount = 2 * quanta - 1
    /\ pc \in {"postproc", "write"} => MixCount = 2 * quanta
\* C11 as stated: every step of a quantum runs while MixCount is odd.
C11_Original ==
    pc \in {"clear", "incr1", "clock", "incr2", "postproc", "write"} => MixCount % 2 = 1
\* The second quantum of a call is writing its output, MixCount being even.
C11_Witness ==
    /\ pc = "write" /\ WantOutput /\ MixDone > 0 /\ MixCount % 2 = 0 /\ quanta >= 2

\* The slot at this place of the process order, and whether a outputs to b.
PlaceOf(seq, x) == CHOOSE i \in DOMAIN seq : seq[i] = x
InArray(x) == \E i \in DOMAIN auxslots : auxslots[i] = x
\* C12 (as amended): in the order of the state->process calls each slot comes
\* before every slot it outputs to, directly or through the Target chain; the
\* slots processed are the active ones, each once.
C12_SourcesFirst ==
    /\ \A i, j \in DOMAIN sorted_slots :
          in_chain(sorted_slots[i], sorted_slots[j]) => i < j
    /\ \A i, j \in DOMAIN processed :
          Reaches(SlotTarget, processed[i], processed[j], MaxSortSlots) => i < j
    /\ sortpc = "done" =>
          /\ Len(processed) = Len(auxslots)
          /\ \A x \in SortSlotIds : InArray(x) => \E i \in DOMAIN processed : processed[i] = x
\* C12 as stated: each slot comes before any slot that outputs to it.
C12_Original ==
    \A i, j \in DOMAIN processed :
        Reaches(SlotTarget, processed[j], processed[i], MaxSortSlots) => i < j
\* Three slots in a chain, the array holding the final target first and the
\* first source second, have all been processed.
C12_Witness ==
    /\ sortpc = "done" /\ Len(processed) = 3
    /\ SlotTarget[auxslots[2]] = auxslots[3] /\ SlotTarget[auxslots[3]] = auxslots[1]
    /\ processed = <<auxslots[2], auxslots[3], auxslots[1]>>

\* A device of one 8-bit channel with no event enabled renders quanta of its
\* voices and is disconnected at any moment.
InitRender ==
    /\ InitBase /\ SortIdle /\ BackendIdle /\ RenderStart /\ CalcIdle /\ GainIdle /\ ConvIdle /\ ClockIdle /\ RaceIdle /\ DelayIdle /\ UhjIdle /\ PanIdle
    /\ Frequency = MaxFrequency /\ NumChannels = 1
    /\ FmtType \in {"DevFmtByte", "DevFmtUByte"}
    /\ UpdateSize = BUFFERSIZE /\ WantOutput = TRUE
    /\ EnabledEvts = [c \in Contexts |-> {}]
    /\ Voices \in {[c \in Contexts |-> p] : p \in VoiceProfiles(1)}
NextRender ==
    \/ \E noise \in [1..BUFFERSIZE -> DitherNoise] : RenderQuantum(noise)
    \/ RenderDisconnect
SpecRender == InitRender /\ [][NextRender]_vars

\* A voice's parameters are calculated once from any properties.
InitCalc == InitQuiet /\ SortIdle /\ BackendIdle /\ RenderIdle /\ CalcStart /\ GainIdle /\ ConvIdle /\ ClockIdle /\ RaceIdle /\ DelayIdle /\ UhjIdle /\ PanIdle
NextCalc == CalcStep
SpecCalc == InitCalc /\ [][NextCalc]_vars

\* A voice channel's gains are calculated once from any properties.
InitGains ==
    InitQuiet /\ SortIdle /\ BackendIdle /\ RenderIdle /\ CalcIdle /\ GainStart /\ ConvIdle /\ ClockIdle /\ RaceIdle /\ DelayIdle /\ UhjIdle /\ PanIdle
NextGains == CalcGains
SpecGains == InitGains /\ [][NextGains]_vars

\* One sample of any value is converted for any sample type.
InitConv ==
    InitQuiet /\ SortIdle /\ BackendIdle /\ RenderIdle /\ CalcIdle /\ GainIdle /\ ConvStart /\ ClockIdle /\ RaceIdle /\ DelayIdle /\ UhjIdle /\ PanIdle
NextConv == ConvertSample
SpecConv == InitConv /\ [][NextConv]_vars

\* C13: once the device's Connected flag is false the backend's loop begins
\* no aluMixData call and is not inside one, and the mixer thread leaves its
\* loop and returns.
C13_NoMixAfterDisconnect ==
    /\ [](~Connected => mpc \notin {"mix", "mixing"})
    /\ [][(~Connected) => mpc' \notin {"mix", "mixing"}]_vars
    /\ (~Connected) ~> (mpc \in {"returned", "none"})
C13_Witness ==
    /\ ~Connected /\ mpc = "returned" /\ mixed /\ ~mKillNow

\* C14: a stop() that has set mKillNow on a started backend returns from
\* join() with the mixer thread terminated, wherever in its loop the thread
\* was; a stop() that finds mKillNow already set, or no joinable thread,
\* returns without joining.
C14_StopTerminates ==
    /\ (spc = "join") ~> (spc = "out" /\ mpc = "none" /\ ~joinable)
    /\ (mKillNow /\ mpc # "none") ~> (mpc \in {"returned", "none"})
    /\ [][(spc = "out" /\ mKillNow' /\ (mKillNow \/ ~joinable))
            => (spc' = "out" /\ joinable' = joinable)]_vars
C14_Witness ==
    /\ spc = "out" /\ mKillNow /\ ~joinable /\ mpc = "none" /\ mixed /\ Connected

\* C16: the mixer thread holds the backend lock from before the call of
\* aluMixData until after its return, voice mixing included.
C16_LockHeldThroughMix ==
    mpc \in {"mix", "mixing"} => block = "mixer"
\* As stated: the lock is not held while the quantum's voices are mixed.
C16_Original ==
    mpc = "mixing" => block = "none"
C16_Witness ==
    /\ mpc = "mixing" /\ block = "mixer" /\ backend = "wave" /\ avail = MaxAvail

ListenerOutruns ==
    /\ calcIn.attenuated /\ calcIn.SourceDoppler * calcIn.ListenerDoppler > 0
    /\ calcIn.vl * calcIn.SourceDoppler * calcIn.ListenerDoppler >= calcIn.SpeedOfSound
\* The source approaches at or above the speed of sound and the listener
\* does not outrun it.
SourceOutruns ==
    /\ calcIn.attenuated /\ calcIn.SourceDoppler * calcIn.ListenerDoppler > 0
    /\ calcIn.vs * calcIn.SourceDoppler * calcIn.ListenerDoppler >= calcIn.SpeedOfSound
    /\ calcIn.vl * calcIn.SourceDoppler * calcIn.ListenerDoppler < calcIn.SpeedOfSound

C18_StepClamped ==
    calcpc = "done" =>
        LET P == PitchOf(calcIn)
            top == MAX_PITCH * FRACTIONONE
        IN  /\ vStep \in 1..top
            /\ P.d = 0 => vStep = top
            /\ P.d > 0 =>
                  LET exact == Clamp(P.n * FRACTIONONE, P.d, top * P.d)
                  IN  /\ vStep * P.d - exact < P.d
                      /\ exact - vStep * P.d < P.d
            /\ SourceOutruns => vStep = top
C18_Witness ==
    /\ calcpc = "done" /\ SourceOutruns /\ vStep = MAX_PITCH * FRACTIONONE
    /\ calcIn.Pitch = Frac(1, 2) /\ calcIn.mode = "truncate"

IntegerTypes == DevFmtTypes \ {"DevFmtFloat"}
SignedTypes == {"DevFmtByte", "DevFmtShort", "DevFmtInt"}
\* The sample scaled to the type and clamped to the type's signed range.
ScaledClamped(T, val) ==
    clampFrac(Scaled(val, HeldBits(T)), -(2 ^ (HeldBits(T) - 1)), 2 ^ (HeldBits(T) - 1) - 1)

\* C20: for every integer sample type the converted sample is less than one
\* step away from the input scaled to the type and clamped to the type's
\* range, signed results lie within [min, max] and unsigned ones are the
\* signed result plus the midpoint bias within [0, 2^w - 1]; a float sample
\* is passed on unchanged, whatever its value.
C20_IntegerConvClamped ==
    convpc = "done" =>
        LET T == convIn.T
            w == HeldBits(T)
            half == 2 ^ (w - 1)
            sgn == IF T \in SignedTypes THEN convOut ELSE convOut - half
        IN  /\ T = "DevFmtFloat" => convOut = convIn.val
            /\ T \in IntegerTypes =>
                  /\ sgn \in (-half)..(half - 1)
                  /\ LET exact == ScaledClamped(T, convIn.val)
                     IN  /\ sgn * exact.d - exact.n < exact.d
                         /\ exact.n - sgn * exact.d < exact.d
                  /\ T \notin SignedTypes => convOut \in 0..(2 * half - 1)
                  /\ (convIn.val >= 0) = (sgn >= 0) \/ sgn = 0
\* As stated: for every sample type, float included, the result is the
\* conversion of the input clamped to [-1, +1].
C20_Original ==
    convpc = "done" =>
        /\ convIn.T = "DevFmtFloat" => convOut \in (-256)..256
        /\ convIn.T \in IntegerTypes =>
              LET half == 2 ^ (HeldBits(convIn.T) - 1)
                  sgn == IF convIn.T \in SignedTypes THEN convOut ELSE convOut - half
              IN  sgn \in (-half)..(half - 1)
C20_Witness ==
    /\ convpc = "done" /\ convIn.T = "DevFmtUShort" /\ convIn.val = MaxSample
    /\ convOut = 65535

\* C23: with acyclic Target chains the sort comes to its end, and the order
\* it yields holds every slot of the array exactly once, each slot before
\* every slot of the array that its Target chain reaches, whether or not the
\* slots between them are in the array.
C23_SortTerminatesInOrder ==
    /\ <>(sortpc = "done")
    /\ [](sortpc \in {"process", "done"} =>
            /\ Len(sorted_slots) = Len(auxslots)
            /\ \A x \in SortSlotIds :
                  Cardinality({i \in DOMAIN sorted_slots : sorted_slots[i] = x})
                      = (IF InArray(x) THEN 1 ELSE 0)
            /\ \A i, j \in DOMAIN sorted_slots :
                  Reaches(SlotTarget, sorted_slots[i], sorted_slots[j], MaxSortSlots)
                      => i < j)
\* Two active slots, the second outputting to the first through a slot that
\* is not active.
C23_Witness ==
    /\ sortpc = "done" /\ Len(auxslots) = 2
    /\ \E mid \in SortSlotIds :
          /\ ~InArray(mid)
          /\ SlotTarget[auxslots[2]] = mid /\ SlotTarget[mid] = auxslots[1]
    /\ sorted_slots = <<auxslots[2], auxslots[1]>>

\* The mixer renders quanta while another thread reads the device clock.
InitClock ==
    /\ InitQuiet /\ SortIdle /\ BackendIdle /\ RenderIdle /\ CalcIdle /\ GainIdle /\ ConvIdle
    /\ ClockStart /\ RaceIdle /\ DelayIdle /\ UhjIdle /\ PanIdle
\* With no voice playing and no event enabled, nothing is stopped or posted.
NextClock ==
    \/ BackendMix \/ BackendDisconnect
    \/ LoopHead \/ ClearMixBuffers \/ IncrementMixCount1
    \/ ParamUpdatesBegin \/ ContextExchange \/ ListenerExchange \/ SlotExchange
    \/ VoiceExchange \/ ParamUpdatesEnd \/ MixVoice \/ ProcessEffects
    \/ AdvanceClock \/ IncrementMixCount2 \/ PostProcess \/ WriteOutput
    \/ DisconnectExchange \/ DisconnectEvent \/ DisconnectVoice
    \/ ReaderNext
SpecClock == InitClock /\ [][NextClock]_vars

\* C28: SamplesDone and ClockBase change only in steps taken while MixCount
\* is odd and that leave MixCount as it is, so the pair a reader keeps, having
\* found the same even MixCount before and after reading the two fields, is
\* the device's pair at that moment and not a mix of two quanta.
C28_ClockUnderOddCount ==
    /\ [][(SamplesDone' # SamplesDone \/ ClockBase' # ClockBase)
             => (MixCount % 2 = 1 /\ MixCount' = MixCount)]_vars
    /\ [](rpc = "accepted" => (rok /\ rcount % 2 = 0))
\* The reader has kept, for the second time, a pair taken after a quantum
\* that rolled a whole second into ClockBase.
C28_Witness ==
    /\ rpc = "accepted" /\ rok /\ rcount >= 2 /\ rbase >= 1 /\ reads = 2
    /\ rdone = SamplesDone /\ rbase = ClockBase

\* Two threads call aluHandleDisconnect on one device, whatever its contexts'
\* event masks and voices.
InitRace ==
    /\ InitBase /\ SortIdle /\ BackendIdle /\ RenderIdle /\ CalcIdle /\ GainIdle /\ ConvIdle
    /\ ClockIdle /\ RaceStart /\ DelayIdle /\ UhjIdle /\ PanIdle
    /\ Frequency = MaxFrequency /\ NumChannels = 1 /\ FmtType = "DevFmtShort"
    /\ UpdateSize = BUFFERSIZE /\ WantOutput = FALSE
    /\ EnabledEvts \in [Contexts -> EventMasks]
    /\ Voices \in {f \in [Contexts -> UNION {VoiceProfiles(c) : c \in Contexts}] :
                      \A c \in Contexts : f[c] \in VoiceProfiles(c)}
NextRace ==
    \E t \in Callers : RaceCall(t) \/ RaceExchange(t) \/ RaceEvent(t) \/ RaceVoice(t)
SpecRace == InitRace /\ [][NextRace]_vars

\* How many events of one kind, for one source, the calls wrote to a context.
WrittenBy(c, evt) == Cardinality({i \in DOMAIN dlog[c] : dlog[c][i] = evt})
\* C30: of all the aluHandleDisconnect calls on a device, one after the other
\* or at the same time, at most one goes past the exchange of Connected; a
\* call that finds the flag false returns having changed no voice and written
\* no event, so a context gets at most one Disconnected event and a voice at
\* most one SourceStopped event from them.
C30_DisconnectOnce ==
    /\ [](entered <= 1)
    /\ [](\A c \in Contexts :
            /\ WrittenBy(c, DisconnectedEvent) <= 1
            /\ \A v \in VoiceIdx : WrittenBy(c, SourceStoppedEvent(SourceOf(c, v))) <= 1)
    /\ [][\A t \in Callers :
            (dpc[t] = "xchg" /\ ~Connected /\ dpc'[t] # "xchg")
               => (dpc'[t] = "idle" /\ UNCHANGED <<Connected, Voices, evtVars, dlog>>)]_vars
    /\ [][(Voices' # Voices \/ AsyncEvents' # AsyncEvents \/ EventSem' # EventSem)
             => (entered = 1 /\ \E t \in Callers : dpc[t] \in {"ctx", "voice"})]_vars
\* One call is in its voice loop, having written the Disconnected event and
\* one SourceStopped event, while the other thread's call, its second, is
\* about to exchange the flag that is already false.
C30_Witness ==
    \E t, u \in Callers :
        /\ t # u /\ dpc[t] = "voice" /\ dpc[u] = "xchg" /\ dcalls[u] = 2 /\ ~Connected
        /\ \E c \in Contexts : Len(dlog[c]) = 2 /\ dlog[c][1] = DisconnectedEvent

\* The references to effect state s that something holds: the slots' Effect
\* and Params fields, the property blocks, the release events not yet read,
\* the old state in the mixer's hands between the swap and its hand-over, and
\* the state an API call has set aside for release.
SlotEntities == {E_slot(c, s) : c \in Contexts, s \in SlotIdx}
ReleaseEvent(s) == [type |-> EventType_ReleaseEffectState, id |-> s]
References(s) ==
    Cardinality({e \in SlotEntities : Params[e].mEffectState = s})
    + Cardinality({e \in SlotEntities : SlotEffect[e] = s})
    + Cardinality({b \in Blocks : PropsMem[b].State = s})
    + Cardinality({<<c, k>> \in Contexts \X (1..RingSize) :
                      /\ k \in DOMAIN Queued(AsyncEvents[c])
                      /\ Queued(AsyncEvents[c])[k] = ReleaseEvent(s)})
    + (IF pc \in {"slot_cas", "slot_release"} /\ oldstate = s THEN 1 ELSE 0)
    + (IF aoldstate = s THEN 1 ELSE 0)
\* What a step does with the old state: its count goes down by one, a release
\* event carrying it is written, it is stored in the block consumed.
OldDecremented == mRef'[oldstate] = mRef[oldstate] - 1
OldQueued ==
    AsyncEvents'[ctx] = RingWrite(AsyncEvents[ctx], ReleaseEvent(oldstate))
OldStored == PropsMem[props].State = 0 /\ PropsMem'[props].State = oldstate
\* C26: when CalcEffectSlotParams has swapped a slot's effect state, the step
\* that disposes of the old one does exactly one of three things: it lowers
\* the count (found above 1), queues a ReleaseEffectState event with the state
\* (count 1, room in the ring), or stores the state in the block it is about
\* to recycle (count 1, ring full). Every count equals the references held, so
\* none is dropped, and the mixer thread never takes a count to 0.
C26_OldStateHandedOver ==
    /\ [](\A s \in States : mRef[s] = References(s))
    /\ [][(pc \in {"slot_cas", "slot_release"} /\ pc' \in {"slot_post", "slot_recycle"}) =>
            /\ OldDecremented
                 <=> (pc = "slot_cas" /\ oldval > 1 /\ mRef[oldstate] = oldval)
            /\ OldQueued
                 <=> (pc = "slot_release" /\ oldval = 1
                      /\ WriteVectorFirstLen(AsyncEvents[ctx]) > 0)
            /\ OldStored
                 <=> (pc = "slot_release" /\ oldval = 1
                      /\ WriteVectorFirstLen(AsyncEvents[ctx]) = 0)
            /\ Cardinality({k \in 1..3 :
                              \/ k = 1 /\ OldDecremented
                              \/ k = 2 /\ OldQueued
                              \/ k = 3 /\ OldStored}) = 1]_vars
    /\ [][(pc' # pc) => \A s \in States : mRef[s] > 0 => mRef'[s] > 0]_vars
\* The ring being full, the old state, whose count is 1, has been stored in
\* the block that is about to go on the free list.
C26_Witness ==
    /\ pc = "slot_recycle" /\ oldval = 1 /\ mRef[oldstate] = 1
    /\ PropsMem[props].State = oldstate
    /\ WriteVectorFirstLen(AsyncEvents[ctx]) = 0

\* An update of one of these kinds was consumed for the context at hand in
\* the quantum at hand.
ConsumedOf(kinds) ==
    \E e \in Entities : CtxOf(e) = ctx /\ KindOf(e) \in kinds /\ consumed[e] > 0
\* C27: in a quantum that does not find HoldUpdates set, a slot with no
\* pending update is calculated again exactly when the context's update was
\* consumed; a voice with a SourceID and no pending update is calculated again
\* exactly when a context, listener or slot update was consumed, and otherwise
\* keeps its parameters; and when none was consumed the pending update of a
\* voice whose SourceID is 0 stays where it is.
C27_ForcedRecalculation ==
    /\ [][(pc = "upd_slot" /\ sidx <= NumSlots /\ sidx' = sidx + 1
           /\ Update[E_slot(ctx, sidx)] = 0) =>
            LET e == E_slot(ctx, sidx)
            IN  /\ calcs'[e] = calcs[e] + (IF ConsumedOf({"context"}) THEN 1 ELSE 0)
                /\ Params'[e] = Params[e]]_vars
    /\ [][(pc = "upd_voice" /\ vidx <= VoiceCount /\ vidx' = vidx + 1
           /\ Voices[ctx][vidx].SourceID # 0 /\ Update[E_voice(ctx, vidx)] = 0) =>
            LET e == E_voice(ctx, vidx)
            IN  /\ calcs'[e] = calcs[e]
                       + (IF ConsumedOf({"context", "listener", "slot"}) THEN 1 ELSE 0)
                /\ Params'[e] = Params[e]]_vars
    /\ [][(pc = "upd_voice" /\ vidx <= VoiceCount /\ vidx' = vidx + 1
           /\ Voices[ctx][vidx].SourceID = 0
           /\ ~ConsumedOf({"context", "listener", "slot"})) =>
            LET e == E_voice(ctx, vidx)
            IN  /\ Update'[e] = Update[e] /\ calcs'[e] = calcs[e]
                /\ Params'[e] = Params[e]]_vars
\* The context's update was consumed in this quantum, and a slot and a voice
\* for which nothing was ever published have been calculated again.
C27_Witness ==
    /\ pc = "upd_end" /\ ~heldq /\ consumed[E_context(ctx)] = 1
    /\ \E s \in SlotIdx : lastPub[E_slot(ctx, s)] = 0 /\ calcs[E_slot(ctx, s)] >= 1
    /\ \E v \in VoiceIdx :
          /\ Voices[ctx][v].SourceID # 0
          /\ lastPub[E_voice(ctx, v)] = 0 /\ calcs[E_voice(ctx, v)] >= 1

\* C29 as stated: the thread of every backend loop holds the backend lock
\* whenever it is inside aluMixData or about to call aluHandleDisconnect,
\* does not hold it while it waits in poll() or sleeps, and holds none once
\* it has returned.
C29_Original ==
    /\ mpc = "mixing" => block = "mixer"
    /\ mpc \in {"poll_failed", "write_failed"} => block = "mixer"
    /\ mpc \in {"poll", "clock"} => block = "none"
    /\ mpc = "returned" => block = "none"
\* C29, what the playback loops do: the lock is held inside aluMixData and
\* at every call of aluHandleDisconnect except the Wave writer's, after a
\* failed write; it is not held in poll() or asleep, nor after the return.
C29_LockedButWaveDisconnect ==
    /\ mpc = "mixing" => block = "mixer"
    /\ mpc \in {"poll_failed", "write_failed"} =>
          (block = "mixer" <=> ~(backend = "wave" /\ mpc = "write_failed"))
    /\ mpc \in {"poll", "clock"} => block = "none"
    /\ mpc = "returned" => block = "none"

\* One channel with any delay and gain is fed quanta of any sizes.
InitDelay ==
    /\ InitQuiet /\ SortIdle /\ BackendIdle /\ RenderIdle /\ CalcIdle /\ GainIdle /\ ConvIdle
    /\ ClockIdle /\ RaceIdle /\ DelayStart /\ UhjIdle /\ PanIdle
NextDelay ==
    \E todo \in 1..BUFFERSIZE : \E bits \in [1..todo -> {0, 1}] : CompensateQuantum(todo, bits)
SpecDelay == InitDelay /\ [][NextDelay]_vars

\* The samples that have entered the delay line, its first contents included.
Entered == [i \in 1..distcomp.Length |-> 0] \o fed
\* C24: a channel with Length L > 0 and gain G puts out, sample for sample,
\* G times its input of L samples before, and G times the line's first
\* contents for the first L samples; a channel with L = 0 puts out its input
\* (times G, which matters when G < 1); whatever the sizes of the quanta, and
\* the line always holds the last L samples that entered, so that none is
\* lost, repeated or out of place.
C24_DelayedAndScaled ==
    /\ Len(got) = Len(fed)
    /\ \A n \in DOMAIN got : got[n] = Entered[n] * distcomp.Gain
    /\ Len(distcomp.Buffer) = distcomp.Length
    /\ \A i \in DOMAIN distcomp.Buffer : distcomp.Buffer[i] = Entered[Len(fed) + i]
\* A delay of three samples, longer than any quantum, and a gain of one
\* half: six samples have gone in, the first three have come out halved
\* behind the line's first contents, and the last three are in the line.
C24_Witness ==
    /\ distcomp.Length = 3 /\ distcomp.Gain = 1 /\ Len(fed) = MaxStream
    /\ got[1] = 0 /\ got[4] = fed[1] /\ got[6] = fed[3] /\ fed[3] = 7
    /\ distcomp.Buffer = SubSeq(fed, 4, 6)

\* A new encoder is given a run of B-Format samples in calls of any sizes.
InitUhj ==
    /\ InitQuiet /\ SortIdle /\ BackendIdle /\ RenderIdle /\ CalcIdle /\ GainIdle /\ ConvIdle
    /\ ClockIdle /\ RaceIdle /\ DelayIdle /\ UhjStart /\ PanIdle
NextUhj ==
    \E n \in 1..MaxEncode : \E ins \in [1..n -> BFormatSamples] : EncodeCall(ins)
SpecUhj == InitUhj /\ [][NextUhj]_vars

\* The outputs of the three filter chains of a new encoder for the whole run.
WholeRun(weights, coeffs) ==
    AllPassChain(NewFilters,
                 [i \in 1..Len(uin) |-> weights[1] * uin[i][1] + weights[2] * uin[i][2]
                                          + weights[3] * uin[i][3]],
                 coeffs).dst
WholeY == WholeRun(<<0, 0, UhjWeights.DY>>, Filter1CoeffSqr)
WholeWX2 == WholeRun(<<UhjWeights.DW, UhjWeights.DX, 0>>, Filter2CoeffSqr)
WholeWX1 == WholeRun(<<UhjWeights.SW, UhjWeights.SX, 0>>, Filter1CoeffSqr)
Before(run, n) == IF n = 1 THEN 0 ELSE run[n - 1]
\* C25: what is added to the outputs for sample n of the run is made of the
\* Filter1 outputs for sample n - 1 (zero for the first sample) and of the
\* Filter2 output for sample n, the last Filter1 outputs being carried from
\* chunk to chunk and from call to call; so the calls together add what one
\* call on the whole run adds.
C25_Filter1OneSampleLate ==
    /\ Len(uout) = Len(uin)
    /\ \A n \in DOMAIN uout :
          LET S == Before(WholeWX1, n)
              D == Before(WholeY, n) + WholeWX2[n]
          IN  uout[n] = <<S + D, S - D>>
    /\ uout = encode(NewEncoder, uin).out
    /\ uin # <<>> => enc.mLastY = WholeY[Len(uin)] /\ enc.mLastWX = WholeWX1[Len(uin)]
\* Four samples, more than a chunk, were encoded, and the Filter1 outputs
\* carried from one sample to the next are not zero.
C25_Witness ==
    /\ Len(uin) = 4 /\ uin[1] = <<1, 0, 1>> /\ uin[3] = <<1, 1, 1>>
    /\ Before(WholeWX1, 2) # 0 /\ Before(WholeY, 4) # 0
    /\ uout[2] # <<0, 0>> /\ enc.mLastY # 0

\* A device of any layout, with any configuration it can find, is given its
\* renderer once.
InitPan ==
    /\ InitQuiet /\ SortIdle /\ BackendIdle /\ RenderIdle /\ CalcIdle /\ GainIdle /\ ConvIdle
    /\ ClockIdle /\ RaceIdle /\ DelayIdle /\ UhjIdle /\ PanStart
NextPan == aluInitRenderer
SpecPan == InitPan /\ [][NextPan]_vars

\* aluInitRenderer has returned.
RendererSet == renderer.done /\ renderer.path # "none"

\* C21 as stated: after aluInitRenderer the dry bus has 1, 4, 9 or 16
\* channels, (order+1)^2 for its order.
C21_Original ==
    RendererSet =>
        /\ Dry.NumChannels \in {1, 4, 9, 16}
        /\ Dry.NumChannels = (Dry.Order + 1) * (Dry.Order + 1)

\* C21 (as amended): after aluInitRenderer the dry bus has 1, 3, 4, 5, 7, 9 or
\* 16 channels: (order+1)^2 when the bus is periphonic (Ambi3D output, HRTF, a
\* periphonic preset), 2*order+1 when it is horizontal only (the built-in
\* decoders, UHJ, a horizontal preset), and the one channel W for the built-in
\* mono decoder.
C21_BusChannelCount ==
    RendererSet =>
        /\ Dry.NumChannels \in {1, 3, 4, 5, 7, 9, 16}
        /\ Dry.Order \in 1..MAX_AMBI_ORDER
        /\ IF Dry.Periphonic
           THEN Dry.NumChannels = (Dry.Order + 1) * (Dry.Order + 1)
           ELSE \/ Dry.NumChannels = 2 * Dry.Order + 1
                \/ FmtChans = "Mono" /\ Dry.NumChannels = 1

\* A 5.1 device without a preset has the built-in second-order horizontal bus
\* of five channels.
C21_Witness ==
    /\ RendererSet /\ FmtChans = "X51" /\ cfg.decoder = "none"
    /\ renderer.path = "InitPanning" /\ ~Dry.Periphonic
    /\ Dry.Order = 2 /\ Dry.NumChannels = 5

\* A preset is configured for a device that is not stereo, and it fails to
\* load, has too many speakers, has a channel mask above third order, or has a
\* speaker whose label is not recognised or has no output channel.
PresetRefused ==
    /\ FmtChans # "Stereo"
    /\ cfg.decoder # "none"
    /\ \/ cfg.decoder = "fails"
       \/ Len(cfg.Speakers) > MAX_OUTPUT_CHANNELS
       \/ cfg.ChanMask.order > MAX_AMBI_ORDER
       \/ \E i \in 1..Len(cfg.Speakers) : map_spkr(FmtChans, cfg.Speakers[i]) = -1

\* C22: when the configured preset of a non-stereo device is refused,
\* aluInitRenderer runs InitPanning: the decoder is the built-in one with the
\* layout's own channel count, and no distance compensation and no near-field
\* distance is set, whatever an earlier call had left.
C22_RefusedPresetFallsBack ==
    RendererSet /\ PresetRefused =>
        /\ renderer.path = "InitPanning"
        /\ renderer.AmbiDecoder = "builtin"
        /\ renderer.DistanceComp = "none"
        /\ renderer.AvgSpeakerDist = "zero"
        /\ Dry.NumChannels = coeffcount(FmtChans) /\ ~Dry.Periphonic

\* A quad device whose periphonic third-order preset, to be used in hq-mode
\* with near-field control, names a side speaker the device does not have.
C22_Witness ==
    /\ RendererSet /\ FmtChans = "Quad" /\ cfg.decoder = "loaded"
    /\ cfg.Speakers = <<"LF", "LS">> /\ cfg.hq /\ cfg.nfc
    /\ cfg.ChanMask = [order |-> 3, periphonic |-> TRUE]
    /\ renderer.path = "InitPanning" /\ Dry.NumChannels = 3

====
